---- MODULE Spec2Model ----
(***************************************************************************)
(* CCDB (calibration constants database): the DataProvider interface of    *)
(* include/CCDB/Providers/DataProvider.h as a state machine.  The store    *)
(* holds type tables, run ranges, variations and assignments; each public  *)
(* operation of the provider is one action.  The header carries the        *)
(* contract of every operation in its documentation; the backend that      *)
(* implements it (MySQLDataProvider) is not part of the sources, so the    *)
(* selection and numbering rules the header leaves open follow the         *)
(* written specification of the resolver.                                  *)
(***************************************************************************)
EXTENDS Integers, Sequences, FiniteSets, TLC

\* ---------------------------------------------------------------- bounds
MaxAssignments == 2
\* creations of assignments where the numbering of the versions is followed
\* through deletions
MaxVersions == 3
\* deletions of tables and variations are followed while the next id is at most this
MaxIds == 3
\* errors logged in a row without clearing the list
MaxFailures == 150
\* length of the lines the tokenizer is given, the examples apart
MaxSourceLen == 5
\* lengths of the patterns and of the names they are matched with, the
\* examples apart
MaxPatternLen == 3
MaxNameLen == 4
\* lengths of the two parts of a path that are combined
MaxLeftLen == 4
MaxRightLen == 3

\* ---------------------------------------------------------------- inputs
TablePaths == {"/a", "/b"}
VariationNames == {"default", "mc"}
RowCounts == {1}
ColumnCounts == {2}
Runs == {1, 2}
RunIntervals == {<<2, 2>>, <<1, 3>>}
\* the instants of the clock: 1 is before every creation
Times == {1, 2, 3}
Versions == 1..(MaxAssignments + 1)
AssignmentIds == 1..MaxAssignments
\* every creation of an assignment creates at most one run range
RunRangeIds == 1..MaxAssignments
Comments == {"c0", "c1"}
\* data by rows and columns: 1x2, 2x2 and 1x1
DataSets ==
    { << <<"1", "2">> >>,
      << <<"1", "2">>, <<"3", "4">> >>,
      << <<"1">> >> }

\* directories: the root, two below it and one below the first
DirNames == {"d", "e"}
DirPaths == {"/", "/d", "/e", "/d/e"}
\* names of the tables of a directory
TableNames == {"a", "b", "t"}
\* names that are given to the creations and are no names: with a path
\* separator, with a blank
InvalidNames == {"d/e", "d e"}
\* the characters of a name, one by one
Spelling(name) ==
    CASE name = "a" -> <<"a">>
      [] name = "b" -> <<"b">>
      [] name = "d" -> <<"d">>
      [] name = "e" -> <<"e">>
      [] name = "t" -> <<"t">>
      [] name = "d/e" -> <<"d", "/", "e">>
      [] name = "d e" -> <<"d", " ", "e">>
      [] name = "px" -> <<"p", "x">>
      [] name = "py" -> <<"p", "y">>
      [] name = "p x" -> <<"p", " ", "x">>
\* the type strings of the columns of a new table: the seven of the
\* documentation, the empty one, one in another case and one that is no type
ColumnTypeStrings ==
    {"int", "uint", "long", "ulong", "double", "bool", "string", "", "Int", "float"}
\* the maps of column names to type strings a table is created with: one
\* column of every type string, the two columns of the documentation, and a
\* column of a name that is no name
ColumnMaps ==
    [{"px"} -> ColumnTypeStrings]
    \cup {[c \in {"px", "py"} |-> ""], [c \in {"p x"} |-> "int"]}

\* the namepaths a calibration is asked for
NamePaths == {"/a", "/b", "/d/a"}
\* what the retrieval of ccdb::DMySQLCalibration does: it returns true or
\* false, or it throws a std::exception or something else
Retrievals == {"true", "false", "std::exception", "exception"}

\* A-Z, a-z, 0-9, _, -
NameCharacters ==
    {"A", "B", "C", "D", "E", "F", "G", "H", "I", "J", "K", "L", "M",
     "N", "O", "P", "Q", "R", "S", "T", "U", "V", "W", "X", "Y", "Z",
     "a", "b", "c", "d", "e", "f", "g", "h", "i", "j", "k", "l", "m",
     "n", "o", "p", "q", "r", "s", "t", "u", "v", "w", "x", "y", "z",
     "0", "1", "2", "3", "4", "5", "6", "7", "8", "9", "_", "-"}

\* characters of a line: a letter, two blanks, the quote, the comment sign and
\* the backslash
LexChars == {"a", " ", "\t", "\"", "#", "\\"}
\* the vertical tab of the source's list has no literal here
CCDB_BLANK_CHARACTERS == {" ", "\n", "\t", "\r", "\f"}

\* the lines of the documentation of LexicalSplit and the values they give
JohnSmith123Note == <<"\"", "J", "o", "h", "n", " ", "S", "m", "i", "t", "h", "\"", " ", "1", "2", "3", " ", "#", "n", "o", "t", "e">>
Info4 == <<"\"", "i", "n", "f", "o", " ", "#", "4", "\"">>
JohnQSmithQ == <<"J", "o", "h", "n", "\"", " ", "S", "m", "i", "t", "h", "\"">>
JohnQQSmith == <<"J", "o", "h", "n", "\"", " ", "\"", "S", "m", "i", "t", "h">>
NumberSmith == <<"5", ".", "1", "4", "\"", "S", "m", "i", "t", "h", "\"">>
OpenQuote == <<"1", "2", " ", "\"", "a", "b", " ", "c">>
TokJohnSmith == <<"J", "o", "h", "n", " ", "S", "m", "i", "t", "h">>
Tok123 == <<"1", "2", "3">>
TokInfo4 == <<"i", "n", "f", "o", " ", "#", "4">>
Tok514Smith == <<"5", ".", "1", "4", "S", "m", "i", "t", "h">>
Tok12 == <<"1", "2">>
TokAbC == <<"a", "b", " ", "c">>
\* a quoted value with a quote saved by a backslash, and a second value
EscapedQuote == <<"\"", "a", "\\", "\"", "b", "\"", " ", "c">>
TokAQuoteB == <<"a", "\"", "b">>
TokC == <<"c">>

Sources ==
    UNION {[1..n -> LexChars] : n \in 0..MaxSourceLen}
    \cup {JohnSmith123Note, Info4, JohnQSmithQ, JohnQQSmith, NumberSmith, OpenQuote,
          EscapedQuote}

\* characters of a pattern and of a name
PatternChars == {"a", "b", "*", "?"}
NameChars == {"a", "b"}
\* the pattern and the two names of the examples of the search
PatAStarBQC == <<"a", "*", "b", "?", "c">>
NameAXXbYc == <<"a", "X", "X", "b", "Y", "c">>
NameAXXbYYc == <<"a", "X", "X", "b", "Y", "Y", "c">>
Patterns == UNION {[1..n -> PatternChars] : n \in 0..MaxPatternLen} \cup {PatAStarBQC}
Names == UNION {[1..n -> NameChars] : n \in 0..MaxNameLen} \cup {NameAXXbYc, NameAXXbYYc}

\* characters of a path, and the two parts that are combined
PathChars == {"/", "a", "b"}
Lefts == UNION {[1..n -> PathChars] : n \in 0..MaxLeftLen}
Rights == UNION {[1..n -> PathChars] : n \in 0..MaxRightLen}

NULL == 0
\* what an operation of boolean result returns when it succeeds
Success == 1

\* error codes of the taxonomy
NotFound == "NotFound"
ValidationFailed == "ValidationFailed"
Conflict == "Conflict"
InternalFailed == "InternalFailed"

mMaximumErrorsToHold == 100

VARIABLES
    typeTables,     \* set of [id, path, nRows, nColumns]
    runRanges,      \* set of [id, min, max, name]
    variations,     \* set of [id, name, parentId]
    assignments,    \* set of [id, tableId, runRangeId, variationId, created, version, data, comment]
    nextId,         \* [table, runRange, variation, assignment]: the next auto-increment ids
    now,            \* the clock that stamps creations
    mErrors,        \* sequence of error codes held by the provider
    last,           \* the last call: [op, res, data, related], its operation and
                    \* return value, and of the Assignment object a retrieval
                    \* returns the data and the related objects it carries
    directoryRows,  \* set of [path, row]: the directories by full path; row tells
                    \* the directories of one path from each other
    failures,       \* number of errors logged since the error list was cleared last
    lex,            \* the tokenizer: [source, tokens, split], its input and its output
    wild,           \* the wildcard check: [pattern, source, checked, result]
    paths,          \* the path helpers: [left, right, combined, directory, done]
    handles,        \* the Directory objects the caller holds, by path: "none",
                    \* "valid" or "stale"
    columns,        \* set of [tableId, name, type]: the columns of the type tables
                    \* that were created with a map of columns
    calib           \* the JCalibrationCCDB of a run and a context, and its last
                    \* call: [run, context, call, namepath, retrieval, returned]

\* the variables outside the index of assignments
\* the variables of the helpers of StringUtils, the tokenizer apart, the
\* columns of the type tables and the calibration of jana
rest == <<wild, paths, columns, calib>>

aux == <<directoryRows, failures, lex, rest, handles>>

vars == <<typeTables, runRanges, variations, assignments, nextId, now, mErrors, last,
          directoryRows, failures, lex, rest, handles>>

\* the full paths of the directories
directories == {d.path : d \in directoryRows}

store == <<typeTables, runRanges, variations, assignments, nextId>>

\* ---------------------------------------------------------------- errors
ClearErrors == << >>

\* a list that holds every error logged
Error_Unbounded(errs, errorCode) == Append(errs, errorCode)

Error(errs, errorCode) ==
    IF Len(errs) < mMaximumErrorsToHold THEN Append(errs, errorCode) ELSE errs

\* the code of the last error held, NULL when none is held
GetLastError(errs) == IF errs = << >> THEN NULL ELSE errs[Len(errs)]

\* ---------------------------------------------------------------- lookups
\* Each lookup returns the id of the stored object, or NULL.
GetConstantsTypeTable(path) ==
    IF \E t \in typeTables : t.path = path
    THEN (CHOOSE t \in typeTables : t.path = path).id
    ELSE NULL

GetVariation(name) ==
    IF \E v \in variations : v.name = name
    THEN (CHOOSE v \in variations : v.name = name).id
    ELSE NULL

GetRunRange(min, max, name) ==
    IF \E r \in runRanges : r.min = min /\ r.max = max /\ r.name = name
    THEN (CHOOSE r \in runRanges : r.min = min /\ r.max = max /\ r.name = name).id
    ELSE NULL

TableById(id) == CHOOSE t \in typeTables : t.id = id
RunRangeById(id) == CHOOSE r \in runRanges : r.id = id
VariationById(id) == CHOOSE v \in variations : v.id = id
AssignmentById(id) == CHOOSE a \in assignments : a.id = id

Call(op, res) == [op |-> op, res |-> res, data |-> << >>, related |-> {}]

\* ---------------------------------------------------------------- Init
\* the provider after construction
Connected ==
    /\ typeTables = {}
    /\ runRanges = {}
    /\ variations = {[id |-> 1, name |-> "default", parentId |-> NULL]}
    /\ assignments = {}
    /\ nextId = [table |-> 1, runRange |-> 1, variation |-> 2, assignment |-> 1]
    /\ now = 2
    /\ mErrors = << >>
    /\ last = Call("Connect", NULL)
    /\ directoryRows = {[path |-> "/", row |-> 1]}
    /\ handles = [path \in DirPaths |-> "none"]
    /\ failures = 0
    /\ columns = {}

\* no JCalibrationCCDB is constructed
NoCalibration ==
    calib = [run |-> NULL, context |-> "", call |-> "none", namepath |-> "",
             retrieval |-> "none", returned |-> "none"]

\* no line is given to the tokenizer, no pattern to the wildcard check
NoLine == lex = [source |-> << >>, tokens |-> << >>, split |-> FALSE]
NoPattern == wild = [pattern |-> << >>, source |-> << >>, checked |-> FALSE, result |-> FALSE]

NoPath == paths = [left |-> << >>, right |-> << >>, combined |-> << >>, directory |-> << >>, done |-> FALSE]

Init ==
    /\ Connected
    /\ NoLine
    /\ NoPattern
    /\ NoPath
    /\ NoCalibration

\* a line is given to the tokenizer
InitLex ==
    /\ Connected
    /\ NoCalibration
    /\ \E source \in Sources :
            lex = [source |-> source, tokens |-> << >>, split |-> FALSE]
    /\ NoPattern
    /\ NoPath

\* a pattern and a name are given to the wildcard check
InitWild ==
    /\ Connected
    /\ NoCalibration
    /\ NoLine
    /\ \E pattern \in Patterns, source \in Names :
            wild = [pattern |-> pattern, source |-> source, checked |-> FALSE, result |-> FALSE]
    /\ NoPath

\* two parts of a path are given to the path helpers
InitPath ==
    /\ Connected
    /\ NoCalibration
    /\ NoLine
    /\ NoPattern
    /\ \E left \in Lefts, right \in Rights :
            paths = [left |-> left, right |-> right, combined |-> << >>, directory |-> << >>, done |-> FALSE]

\* a JCalibrationCCDB is constructed for a run and a context, and its
\* calibration has connected
InitCalib ==
    /\ Connected
    /\ NoLine
    /\ NoPattern
    /\ NoPath
    /\ \E run \in Runs, context \in VariationNames :
            calib = [run |-> run, context |-> context, call |-> "none", namepath |-> "",
                     retrieval |-> "none", returned |-> "none"]

\* ---------------------------------------------------------------- clock
Tick ==
    /\ now + 1 \in Times
    /\ now' = now + 1
    /\ UNCHANGED <<typeTables, runRanges, variations, assignments, nextId, mErrors, last, aux>>

\* ---------------------------------------------------------------- schema
CreateConstantsTypeTable(path, rowsNumber, columnsNumber) ==
    /\ IF GetConstantsTypeTable(path) # NULL
       THEN /\ mErrors' = Error(ClearErrors, Conflict)
            /\ last' = Call("CreateConstantsTypeTable", NULL)
            /\ UNCHANGED <<typeTables, nextId>>
       ELSE /\ typeTables' = typeTables \cup
                    {[id |-> nextId.table, path |-> path,
                      nRows |-> rowsNumber, nColumns |-> columnsNumber]}
            /\ nextId' = [nextId EXCEPT !.table = @ + 1]
            /\ mErrors' = ClearErrors
            /\ last' = Call("CreateConstantsTypeTable", nextId.table)
    /\ UNCHANGED <<runRanges, variations, assignments, now, directoryRows, lex, rest, handles>>
    /\ failures' = Len(mErrors')

\* ---------------------------------------------------------------- variations
CreateVariation(name, parentName) ==
    /\ IF GetVariation(name) # NULL
       THEN /\ mErrors' = Error(ClearErrors, Conflict)
            /\ last' = Call("CreateVariation", NULL)
            /\ UNCHANGED <<variations, nextId>>
       ELSE /\ variations' = variations \cup
                    {[id |-> nextId.variation, name |-> name,
                      parentId |-> GetVariation(parentName)]}
            /\ nextId' = [nextId EXCEPT !.variation = @ + 1]
            /\ mErrors' = ClearErrors
            /\ last' = Call("CreateVariation", nextId.variation)
    /\ UNCHANGED <<typeTables, runRanges, assignments, now, directoryRows, lex, rest, handles>>
    /\ failures' = Len(mErrors')

\* ---------------------------------------------------------------- run ranges
\* a new run range at every call, the lookup left out
GetOrCreateRunRange_AlwaysCreates(min, max, name) ==
    [id |-> nextId.runRange,
     runRanges |-> runRanges \cup
         {[id |-> nextId.runRange, min |-> min, max |-> max, name |-> name]}]

\* GetOrCreateRunRange: the id it returns and the run ranges it leaves.
GetOrCreateRunRange(min, max, name) ==
    IF min > max
    THEN [id |-> NULL, runRanges |-> runRanges]
    ELSE IF GetRunRange(min, max, name) # NULL
    THEN [id |-> GetRunRange(min, max, name), runRanges |-> runRanges]
    ELSE [id |-> nextId.runRange,
          runRanges |-> runRanges \cup
              {[id |-> nextId.runRange, min |-> min, max |-> max, name |-> name]}]

\* the call of GetOrCreateRunRange by a user of the provider
GetOrCreateRunRangeCall(min, max, name) ==
    LET runRange == GetOrCreateRunRange(min, max, name)
    IN  /\ IF runRange.id = NULL
           THEN /\ mErrors' = Error(ClearErrors, ValidationFailed)
                /\ UNCHANGED <<runRanges, nextId>>
           ELSE /\ runRange.id = nextId.runRange => nextId.runRange <= MaxIds
                /\ runRanges' = runRange.runRanges
                /\ nextId' = [nextId EXCEPT
                        !.runRange = IF runRange.id = @ THEN @ + 1 ELSE @]
                /\ mErrors' = ClearErrors
        /\ last' = Call("GetOrCreateRunRange", runRange.id)
        /\ UNCHANGED <<typeTables, variations, assignments, now, directoryRows, lex, rest, handles>>
        /\ failures' = Len(mErrors')

\* the run range objects a caller gives to the update: the id of the run
\* range and the limits and the name as the caller has set them
RunRangeObjects == [id : 1..MaxIds, min : 1..3, max : 1..3, name : {"", "r"}]

\* an update that stores the object as it is given
UpdateRunRange_StoresAll(run) ==
    /\ IF ~\E r \in runRanges : r.id = run.id
       THEN /\ mErrors' = Error(ClearErrors, NotFound)
            /\ last' = Call("UpdateRunRange", NULL)
            /\ UNCHANGED runRanges
       ELSE /\ runRanges' = (runRanges \ {RunRangeById(run.id)}) \cup {run}
            /\ mErrors' = ClearErrors
            /\ last' = Call("UpdateRunRange", Success)
    /\ UNCHANGED <<typeTables, variations, assignments, nextId, now, directoryRows, lex, rest, handles>>
    /\ failures' = Len(mErrors')

\* updates start run number, end run number and comment; does not update run
\* range name and id
UpdateRunRange(run) ==
    /\ IF ~\E r \in runRanges : r.id = run.id
       THEN /\ mErrors' = Error(ClearErrors, NotFound)
            /\ last' = Call("UpdateRunRange", NULL)
            /\ UNCHANGED runRanges
       ELSE IF run.min > run.max
       THEN /\ mErrors' = Error(ClearErrors, ValidationFailed)
            /\ last' = Call("UpdateRunRange", NULL)
            /\ UNCHANGED runRanges
       ELSE /\ runRanges' = (runRanges \ {RunRangeById(run.id)}) \cup
                    {[RunRangeById(run.id) EXCEPT !.min = run.min, !.max = run.max]}
            /\ mErrors' = ClearErrors
            /\ last' = Call("UpdateRunRange", Success)
    /\ UNCHANGED <<typeTables, variations, assignments, nextId, now, directoryRows, lex, rest, handles>>
    /\ failures' = Len(mErrors')

\* ---------------------------------------------------------------- assignments
Scope(tableId, runRangeId, variationId) ==
    {a \in assignments : /\ a.tableId = tableId
                         /\ a.runRangeId = runRangeId
                         /\ a.variationId = variationId}

SetMax(S) == CHOOSE x \in S : \A y \in S : y <= x

\* the numbering kept per table and variation, the run range left out
NextVersion_PerTable(tableId, runRangeId, variationId) ==
    LET scope == {a \in assignments : a.tableId = tableId /\ a.variationId = variationId}
    IN  IF scope = {} THEN 1 ELSE SetMax({a.version : a \in scope}) + 1

\* the numbering by the number of assignments that are in the scope
NextVersion_CountsScope(tableId, runRangeId, variationId) ==
    Cardinality(Scope(tableId, runRangeId, variationId)) + 1

NextVersion(tableId, runRangeId, variationId) ==
    LET scope == Scope(tableId, runRangeId, variationId)
    IN  IF scope = {} THEN 1 ELSE SetMax({a.version : a \in scope}) + 1

\* the validation with the check of the rows number left out
CreateAssignmentValidation_NoRowsCheck(data, path, variationName) ==
    IF GetConstantsTypeTable(path) = NULL
    THEN NotFound
    ELSE IF \E i \in 1..Len(data) :
                Len(data[i]) # TableById(GetConstantsTypeTable(path)).nColumns
    THEN ValidationFailed
    ELSE IF GetVariation(variationName) = NULL
    THEN NotFound
    ELSE ""

\* the validation with the check of the variation left out
CreateAssignmentValidation_NoVariationCheck(data, path, variationName) ==
    IF GetConstantsTypeTable(path) = NULL
    THEN NotFound
    ELSE IF Len(data) # TableById(GetConstantsTypeTable(path)).nRows
    THEN ValidationFailed
    ELSE IF \E i \in 1..Len(data) :
                Len(data[i]) # TableById(GetConstantsTypeTable(path)).nColumns
    THEN ValidationFailed
    ELSE ""

\* The validation of CreateAssignment: the error that makes it do nothing, or
\* "" when the table exists, the data fits its rows and columns and the
\* variation exists.
CreateAssignmentValidation(data, path, variationName) ==
    IF GetConstantsTypeTable(path) = NULL
    THEN NotFound
    ELSE IF Len(data) # TableById(GetConstantsTypeTable(path)).nRows
    THEN ValidationFailed
    ELSE IF \E i \in 1..Len(data) :
                Len(data[i]) # TableById(GetConstantsTypeTable(path)).nColumns
    THEN ValidationFailed
    ELSE IF GetVariation(variationName) = NULL
    THEN NotFound
    ELSE ""

\* the creation, followed while the id of the new assignment is at most maxId
CreateAssignmentUpTo(maxId, data, path, runMin, runMax, variationName, comments) ==
    LET tableId == GetConstantsTypeTable(path)
        variationId == GetVariation(variationName)
        runRange == GetOrCreateRunRange(runMin, runMax, "")
        failure == IF runRange.id = NULL THEN ValidationFailed
                   ELSE CreateAssignmentValidation(data, path, variationName)
    IN  IF failure # ""
        THEN /\ mErrors' = Error(ClearErrors, failure)
             /\ last' = Call("CreateAssignment", NULL)
             /\ UNCHANGED <<typeTables, runRanges, variations, assignments, nextId, now, directoryRows, lex, rest, handles>>
             /\ failures' = Len(mErrors')
        ELSE /\ nextId.assignment <= maxId
             /\ runRanges' = runRange.runRanges
             /\ assignments' = assignments \cup
                    {[id |-> nextId.assignment,
                      tableId |-> tableId,
                      runRangeId |-> runRange.id,
                      variationId |-> variationId,
                      created |-> now,
                      version |-> NextVersion(tableId, runRange.id, variationId),
                      data |-> data,
                      comment |-> comments]}
             /\ nextId' = [nextId EXCEPT
                    !.assignment = @ + 1,
                    !.runRange = IF runRange.id = @ THEN @ + 1 ELSE @]
             /\ mErrors' = ClearErrors
             /\ last' = Call("CreateAssignment", nextId.assignment)
             /\ UNCHANGED <<typeTables, variations, now, directoryRows, lex, rest, handles>>
             /\ failures' = Len(mErrors')

CreateAssignment(data, path, runMin, runMax, variationName, comments) ==
    CreateAssignmentUpTo(MaxAssignments, data, path, runMin, runMax, variationName, comments)

\* the update that stamps the row with the time of the update
UpdateAssignment_Restamps(id, comments) ==
    /\ IF \E a \in assignments : a.id = id
       THEN /\ assignments' = (assignments \ {AssignmentById(id)}) \cup
                    {[AssignmentById(id) EXCEPT !.comment = comments, !.created = now]}
            /\ mErrors' = ClearErrors
            /\ last' = Call("UpdateAssignment", id)
       ELSE /\ mErrors' = Error(ClearErrors, NotFound)
            /\ last' = Call("UpdateAssignment", NULL)
            /\ UNCHANGED assignments
    /\ UNCHANGED <<typeTables, runRanges, variations, nextId, now, directoryRows, lex, rest, handles>>
    /\ failures' = Len(mErrors')

UpdateAssignment(id, comments) ==
    /\ IF \E a \in assignments : a.id = id
       THEN /\ assignments' = (assignments \ {AssignmentById(id)}) \cup
                    {[AssignmentById(id) EXCEPT !.comment = comments]}
            /\ mErrors' = ClearErrors
            /\ last' = Call("UpdateAssignment", id)
       ELSE /\ mErrors' = Error(ClearErrors, NotFound)
            /\ last' = Call("UpdateAssignment", NULL)
            /\ UNCHANGED assignments
    /\ UNCHANGED <<typeTables, runRanges, variations, nextId, now, directoryRows, lex, rest, handles>>
    /\ failures' = Len(mErrors')

DeleteAssignment(id) ==
    /\ IF \E a \in assignments : a.id = id
       THEN /\ assignments' = assignments \ {AssignmentById(id)}
            /\ mErrors' = ClearErrors
            /\ last' = Call("DeleteAssignment", id)
       ELSE /\ mErrors' = Error(ClearErrors, NotFound)
            /\ last' = Call("DeleteAssignment", NULL)
            /\ UNCHANGED assignments
    /\ UNCHANGED <<typeTables, runRanges, variations, nextId, now, directoryRows, lex, rest, handles>>
    /\ failures' = Len(mErrors')

\* ---------------------------------------------------------------- deletion
\* a deletion of a type table that does not look at its assignments
DeleteConstantsTypeTable_NoGuard(path) ==
    /\ IF GetConstantsTypeTable(path) = NULL
       THEN /\ mErrors' = Error(ClearErrors, NotFound)
            /\ last' = Call("DeleteConstantsTypeTable", NULL)
            /\ UNCHANGED typeTables
       ELSE /\ nextId.table <= MaxIds
            /\ typeTables' = typeTables \ {TableById(GetConstantsTypeTable(path))}
            /\ mErrors' = ClearErrors
            /\ last' = Call("DeleteConstantsTypeTable", GetConstantsTypeTable(path))
    /\ UNCHANGED <<runRanges, variations, assignments, nextId, now, directoryRows, lex, rest, handles>>
    /\ failures' = Len(mErrors')

\* the type table is not deleted if any assignment for it exists
DeleteConstantsTypeTable(path) ==
    /\ IF GetConstantsTypeTable(path) = NULL
       THEN /\ mErrors' = Error(ClearErrors, NotFound)
            /\ last' = Call("DeleteConstantsTypeTable", NULL)
            /\ UNCHANGED typeTables
       ELSE IF \E a \in assignments : a.tableId = GetConstantsTypeTable(path)
       THEN /\ mErrors' = Error(ClearErrors, Conflict)
            /\ last' = Call("DeleteConstantsTypeTable", NULL)
            /\ UNCHANGED typeTables
       ELSE /\ nextId.table <= MaxIds
            /\ typeTables' = typeTables \ {TableById(GetConstantsTypeTable(path))}
            /\ mErrors' = ClearErrors
            /\ last' = Call("DeleteConstantsTypeTable", GetConstantsTypeTable(path))
    /\ UNCHANGED <<runRanges, variations, assignments, nextId, now, directoryRows, lex, rest, handles>>
    /\ failures' = Len(mErrors')

\* a deletion of a run range that does not look at the assignments in it
DeleteRunRange_NoGuard(id) ==
    /\ IF \A r \in runRanges : r.id # id
       THEN /\ mErrors' = Error(ClearErrors, NotFound)
            /\ last' = Call("DeleteRunRange", NULL)
            /\ UNCHANGED runRanges
       ELSE /\ runRanges' = runRanges \ {RunRangeById(id)}
            /\ mErrors' = ClearErrors
            /\ last' = Call("DeleteRunRange", id)
    /\ UNCHANGED <<typeTables, variations, assignments, nextId, now, directoryRows, lex, rest, handles>>
    /\ failures' = Len(mErrors')

\* the run range is deleted only if no assignment is in it
DeleteRunRange(id) ==
    /\ IF \A r \in runRanges : r.id # id
       THEN /\ mErrors' = Error(ClearErrors, NotFound)
            /\ last' = Call("DeleteRunRange", NULL)
            /\ UNCHANGED runRanges
       ELSE IF \E a \in assignments : a.runRangeId = id
       THEN /\ mErrors' = Error(ClearErrors, Conflict)
            /\ last' = Call("DeleteRunRange", NULL)
            /\ UNCHANGED runRanges
       ELSE /\ runRanges' = runRanges \ {RunRangeById(id)}
            /\ mErrors' = ClearErrors
            /\ last' = Call("DeleteRunRange", id)
    /\ UNCHANGED <<typeTables, variations, assignments, nextId, now, directoryRows, lex, rest, handles>>
    /\ failures' = Len(mErrors')

\* deletes type table and all assignments in it
RecursiveDeleteTypeTable(path) ==
    /\ IF GetConstantsTypeTable(path) = NULL
       THEN /\ mErrors' = Error(ClearErrors, NotFound)
            /\ last' = Call("RecursiveDeleteTypeTable", NULL)
            /\ UNCHANGED <<typeTables, assignments>>
       ELSE /\ nextId.table <= MaxIds
            /\ typeTables' = typeTables \ {TableById(GetConstantsTypeTable(path))}
            /\ assignments' = {a \in assignments : a.tableId # GetConstantsTypeTable(path)}
            /\ mErrors' = ClearErrors
            /\ last' = Call("RecursiveDeleteTypeTable", Success)
    /\ UNCHANGED <<runRanges, variations, nextId, now, directoryRows, lex, rest, handles>>
    /\ failures' = Len(mErrors')

\* a recursive deletion of a run range that leaves the assignments in it
RecursiveDeleteRunRange_KeepsAssignments(id) ==
    /\ IF \A r \in runRanges : r.id # id
       THEN /\ mErrors' = Error(ClearErrors, NotFound)
            /\ last' = Call("RecursiveDeleteRunRange", NULL)
            /\ UNCHANGED <<runRanges, assignments>>
       ELSE /\ runRanges' = runRanges \ {RunRangeById(id)}
            /\ UNCHANGED assignments
            /\ mErrors' = ClearErrors
            /\ last' = Call("RecursiveDeleteRunRange", Success)
    /\ UNCHANGED <<typeTables, variations, nextId, now, directoryRows, lex, rest, handles>>
    /\ failures' = Len(mErrors')

\* deletes run range and all assignments in it
RecursiveDeleteRunRange(id) ==
    /\ IF \A r \in runRanges : r.id # id
       THEN /\ mErrors' = Error(ClearErrors, NotFound)
            /\ last' = Call("RecursiveDeleteRunRange", NULL)
            /\ UNCHANGED <<runRanges, assignments>>
       ELSE /\ runRanges' = runRanges \ {RunRangeById(id)}
            /\ assignments' = {a \in assignments : a.runRangeId # id}
            /\ mErrors' = ClearErrors
            /\ last' = Call("RecursiveDeleteRunRange", Success)
    /\ UNCHANGED <<typeTables, variations, nextId, now, directoryRows, lex, rest, handles>>
    /\ failures' = Len(mErrors')

\* the variation is deleted only if there are no assignments for it
DeleteVariation(name) ==
    /\ IF GetVariation(name) = NULL
       THEN /\ mErrors' = Error(ClearErrors, NotFound)
            /\ last' = Call("DeleteVariation", NULL)
            /\ UNCHANGED variations
       ELSE IF \E a \in assignments : a.variationId = GetVariation(name)
       THEN /\ mErrors' = Error(ClearErrors, Conflict)
            /\ last' = Call("DeleteVariation", NULL)
            /\ UNCHANGED variations
       ELSE /\ nextId.variation <= MaxIds
            /\ variations' = variations \ {VariationById(GetVariation(name))}
            /\ mErrors' = ClearErrors
            /\ last' = Call("DeleteVariation", GetVariation(name))
    /\ UNCHANGED <<typeTables, runRanges, assignments, nextId, now, directoryRows, lex, rest, handles>>
    /\ failures' = Len(mErrors')

\* the variation objects a caller gives to the update: the id of the
\* variation and the name as the caller has set it
VariationObjects == [id : 1..MaxIds, name : VariationNames \cup {"test"}]

\* an update that takes the name whether a variation has it or not
UpdateVariation_AnyName(variation) ==
    /\ IF ~\E v \in variations : v.id = variation.id
       THEN /\ mErrors' = Error(ClearErrors, NotFound)
            /\ last' = Call("UpdateVariation", NULL)
            /\ UNCHANGED variations
       ELSE /\ variations' = (variations \ {VariationById(variation.id)}) \cup
                    {[VariationById(variation.id) EXCEPT !.name = variation.name]}
            /\ mErrors' = ClearErrors
            /\ last' = Call("UpdateVariation", Success)
    /\ UNCHANGED <<typeTables, runRanges, assignments, nextId, now, directoryRows, lex, rest, handles>>
    /\ failures' = Len(mErrors')

\* updates the variation comments, and the variation name if there is no
\* variations with this name
UpdateVariation(variation) ==
    /\ IF ~\E v \in variations : v.id = variation.id
       THEN /\ mErrors' = Error(ClearErrors, NotFound)
            /\ last' = Call("UpdateVariation", NULL)
            /\ UNCHANGED variations
       ELSE IF \E v \in variations : v.name = variation.name /\ v.id # variation.id
       THEN /\ mErrors' = Error(ClearErrors, Conflict)
            /\ last' = Call("UpdateVariation", NULL)
            /\ UNCHANGED variations
       ELSE /\ variations' = (variations \ {VariationById(variation.id)}) \cup
                    {[VariationById(variation.id) EXCEPT !.name = variation.name]}
            /\ mErrors' = ClearErrors
            /\ last' = Call("UpdateVariation", Success)
    /\ UNCHANGED <<typeTables, runRanges, assignments, nextId, now, directoryRows, lex, rest, handles>>
    /\ failures' = Len(mErrors')

\* deletes variation and all assignments that belong to it
RecursiveDeleteVariation(name) ==
    /\ IF GetVariation(name) = NULL
       THEN /\ mErrors' = Error(ClearErrors, NotFound)
            /\ last' = Call("RecursiveDeleteVariation", NULL)
            /\ UNCHANGED <<variations, assignments>>
       ELSE /\ nextId.variation <= MaxIds
            /\ variations' = variations \ {VariationById(GetVariation(name))}
            /\ assignments' = {a \in assignments : a.variationId # GetVariation(name)}
            /\ mErrors' = ClearErrors
            /\ last' = Call("RecursiveDeleteVariation", Success)
    /\ UNCHANGED <<typeTables, runRanges, nextId, now, directoryRows, lex, rest, handles>>
    /\ failures' = Len(mErrors')

\* ---------------------------------------------------------------- resolver
\* a matching that also takes the assignments of the variation's parent
Candidates_WalksParents(run, path, variation) ==
    {a \in assignments :
        /\ \E t \in typeTables : t.id = a.tableId /\ t.path = path
        /\ \E r \in runRanges : r.id = a.runRangeId /\ r.min <= run /\ run <= r.max
        /\ \E v \in variations :
                /\ v.name = variation
                /\ a.variationId \in {v.id, v.parentId}}

\* steps 1-3 of the matching algorithm: the table by path, the run ranges that
\* contain the run, the variation of exactly the requested name
Candidates(run, path, variation) ==
    {a \in assignments :
        /\ \E t \in typeTables : t.id = a.tableId /\ t.path = path
        /\ \E r \in runRanges : r.id = a.runRangeId /\ r.min <= run /\ run <= r.max
        /\ \E v \in variations : v.id = a.variationId /\ v.name = variation}

\* an ordering that breaks ties in creation time towards the lower version
Latest_TieLowestVersion(C) ==
    {a \in C : \A b \in C :
        \/ b.created < a.created
        \/ b.created = a.created /\ b.version >= a.version}

\* the candidates no other candidate precedes in (created DESC, version DESC)
Latest(C) ==
    {a \in C : \A b \in C :
        \/ b.created < a.created
        \/ b.created = a.created /\ b.version <= a.version}

\* a time filter that leaves out the assignments created at the time itself
AsOfTime_Exclusive(C, time) == Latest({a \in C : a.created < time})

\* a time filter whose ordering breaks ties towards the lower version
AsOfTime_TieLowestVersion(C, time) ==
    Latest_TieLowestVersion({a \in C : a.created <= time})

\* the candidates created at or before the time, ordered as for the latest
AsOfTime(C, time) == Latest({a \in C : a.created <= time})

RECURSIVE OrderByCreated(_)
OrderByCreated(C) ==
    IF C = {} THEN << >>
    ELSE LET first == CHOOSE a \in C : \A b \in C :
                        \/ a.created < b.created
                        \/ a.created = b.created /\ a.id <= b.id
         IN  <<first>> \o OrderByCreated(C \ {first})

\* a numbering that counts from the assignment created last
ByVersion_FromLast(C, version) ==
    LET ordered == OrderByCreated(C)
    IN  IF version >= 1 /\ version <= Len(ordered)
        THEN {ordered[Len(ordered) + 1 - version]} ELSE {}

\* the version-th candidate in creation order, counted from 1
ByVersion(C, version) ==
    LET ordered == OrderByCreated(C)
    IN  IF version >= 1 /\ version <= Len(ordered) THEN {ordered[version]} ELSE {}

\* what a resolver call may return, whatever the order of the storage: the id
\* of a selected assignment, NULL when none is selected
Returned(selected) ==
    IF selected = {} THEN {NULL} ELSE {a.id : a \in selected}

\* a return that does not clear the errors of the calls before
Return_KeepsErrors(op, selected) ==
    /\ \E res \in Returned(selected) :
            /\ last' = Call(op, res)
            /\ mErrors' = IF res = NULL THEN Error(mErrors, NotFound) ELSE mErrors
    /\ UNCHANGED <<typeTables, runRanges, variations, assignments, nextId, now, directoryRows, lex, rest, handles>>
    /\ failures' = Len(mErrors')

\* a return that gives now one, now another of the selected assignments
Return_AnyOfSelected(op, selected) ==
    /\ \E res \in Returned(selected) :
            /\ last' = Call(op, res)
            /\ mErrors' = IF res = NULL THEN Error(ClearErrors, NotFound) ELSE ClearErrors
    /\ UNCHANGED <<typeTables, runRanges, variations, assignments, nextId, now, directoryRows, lex, rest, handles>>
    /\ failures' = Len(mErrors')

\* the run range object and the variation object of an assignment
Related(assignment) ==
    {RunRangeById(assignment.runRangeId), VariationById(assignment.variationId)}

\* the Assignment object of a retrieval: with the data blob, and in the full
\* form with all related objects
Loaded(op, assignment, full) ==
    [op |-> op, res |-> assignment.id, data |-> assignment.data,
     related |-> IF full THEN Related(assignment) ELSE {}]

\* The call returns the first of the selected assignments in the order of the
\* storage.  Neither the header nor the written rules fix that order among
\* assignments that tie in both creation time and version; it is a function
\* of the stored data, whichever it is.
ReturnObject(op, selected, full) ==
    /\ \E found \in {selected} :
            IF found = {}
            THEN /\ last' = Call(op, NULL)
                 /\ mErrors' = Error(ClearErrors, NotFound)
            ELSE \E first \in {CHOOSE a \in found : TRUE} :
                    /\ last' = Loaded(op, first, full)
                    /\ mErrors' = ClearErrors
    /\ UNCHANGED <<typeTables, runRanges, variations, assignments, nextId, now, directoryRows, lex, rest, handles>>
    /\ failures' = Len(mErrors')

\* the short form: no variation object or run-range object
Return(op, selected) == ReturnObject(op, selected, FALSE)

\* the full form
ReturnFull(op, selected) == ReturnObject(op, selected, TRUE)

GetAssignmentShort(run, path, variation) ==
    Return("GetAssignmentShort", Latest(Candidates(run, path, variation)))

GetAssignmentShortTime(run, path, time, variation) ==
    Return("GetAssignmentShortTime", AsOfTime(Candidates(run, path, variation), time))

GetAssignmentShortByVersion(run, path, version, variation) ==
    Return("GetAssignmentShortByVersion", ByVersion(Candidates(run, path, variation), version))

\* a full form that also takes the assignments of the variation's parent
GetAssignmentFull_WalksParents(run, path, variation) ==
    ReturnFull("GetAssignmentFull", Latest(Candidates_WalksParents(run, path, variation)))

GetAssignmentFull(run, path, variation) ==
    ReturnFull("GetAssignmentFull", Latest(Candidates(run, path, variation)))

GetAssignmentFullByVersion(run, path, version, variation) ==
    ReturnFull("GetAssignmentFullByVersion", ByVersion(Candidates(run, path, variation), version))

\* ---------------------------------------------------------------- directories
\* the full path of the object of a name in a directory
ChildPath(parentDirFullPath, name) ==
    IF parentDirFullPath = "/" THEN "/" \o name
    ELSE parentDirFullPath \o "/" \o name

SubDirectories(path) ==
    {d \in directories : \E n \in DirNames : d = ChildPath(path, n)}

TablesIn(path) ==
    {t \in typeTables : \E n \in TableNames : t.path = ChildPath(path, n)}

RECURSIVE SubTree(_)
SubTree(path) == {path} \cup UNION {SubTree(d) : d \in SubDirectories(path)}

\* The directories structure is rebuilt: every Directory object the caller
\* holds, except the root directory, is deleted.
Stale_Nothing(held) == held

Stale(held) ==
    [path \in DirPaths |->
        IF path # "/" /\ held[path] = "valid" THEN "stale" ELSE held[path]]

\* the objects the caller holds after an operation on the directories
HandlesAfter(res) == IF res = Success THEN Stale(handles) ELSE handles

\* the directory of a path that is added to those that are there
NewDirectory(fullPath) ==
    [path |-> fullPath,
     row |-> 1 + Cardinality({d \in directoryRows : d.path = fullPath})]

\* a validation that takes every name
ValidateName_TakesAll(name) == TRUE

\* the name of a table, a directory or a column
ValidateName(name) ==
    \A i \in 1..Len(Spelling(name)) : Spelling(name)[i] \in NameCharacters

\* a creation that does not look for a directory of the same name
MakeDirectory_NoConflictCheck(newDirName, parentDirFullPath) ==
    /\ IF ~ValidateName(newDirName)
       THEN /\ mErrors' = Error(ClearErrors, ValidationFailed)
            /\ last' = Call("MakeDirectory", NULL)
            /\ UNCHANGED directoryRows
       ELSE IF parentDirFullPath \notin directories
       THEN /\ mErrors' = Error(ClearErrors, NotFound)
            /\ last' = Call("MakeDirectory", NULL)
            /\ UNCHANGED directoryRows
       ELSE /\ ChildPath(parentDirFullPath, newDirName) \in DirPaths
            /\ directoryRows' = directoryRows \cup
                    {NewDirectory(ChildPath(parentDirFullPath, newDirName))}
            /\ mErrors' = ClearErrors
            /\ last' = Call("MakeDirectory", Success)
    /\ UNCHANGED <<typeTables, runRanges, variations, assignments, nextId, now,
                   lex, rest>>
    /\ failures' = Len(mErrors')
    /\ handles' = HandlesAfter(last'.res)

MakeDirectory(newDirName, parentDirFullPath) ==
    /\ IF ~ValidateName(newDirName)
       THEN /\ mErrors' = Error(ClearErrors, ValidationFailed)
            /\ last' = Call("MakeDirectory", NULL)
            /\ UNCHANGED directoryRows
       ELSE IF parentDirFullPath \notin directories
       THEN /\ mErrors' = Error(ClearErrors, NotFound)
            /\ last' = Call("MakeDirectory", NULL)
            /\ UNCHANGED directoryRows
       ELSE IF ChildPath(parentDirFullPath, newDirName) \in directories
       THEN /\ mErrors' = Error(ClearErrors, Conflict)
            /\ last' = Call("MakeDirectory", NULL)
            /\ UNCHANGED directoryRows
       ELSE /\ ChildPath(parentDirFullPath, newDirName) \in DirPaths
            /\ directoryRows' = directoryRows \cup
                    {NewDirectory(ChildPath(parentDirFullPath, newDirName))}
            /\ mErrors' = ClearErrors
            /\ last' = Call("MakeDirectory", Success)
    /\ UNCHANGED <<typeTables, runRanges, variations, assignments, nextId, now,
                   lex, rest>>
    /\ failures' = Len(mErrors')
    /\ handles' = HandlesAfter(last'.res)

\* a table of a name in a directory: the directory has to exist
CreateConstantsTypeTableIn(name, parentPath, rowsNumber, columnsNumber) ==
    IF ~ValidateName(name)
    THEN /\ mErrors' = Error(ClearErrors, ValidationFailed)
         /\ last' = Call("CreateConstantsTypeTable", NULL)
         /\ UNCHANGED <<typeTables, runRanges, variations, assignments, nextId, now, directoryRows, lex, rest, handles>>
         /\ failures' = Len(mErrors')
    ELSE IF parentPath \notin directories
    THEN /\ mErrors' = Error(ClearErrors, NotFound)
         /\ last' = Call("CreateConstantsTypeTable", NULL)
         /\ UNCHANGED <<typeTables, runRanges, variations, assignments, nextId, now, directoryRows, lex, rest, handles>>
         /\ failures' = Len(mErrors')
    ELSE /\ nextId.table <= MaxIds
         /\ CreateConstantsTypeTable(ChildPath(parentPath, name), rowsNumber, columnsNumber)

\* ---------------------------------------------------------------- columns
\* a conversion that takes the type strings in every case
StringToType_IgnoresCase(type) ==
    CASE type \in {"int", "Int"} -> "int"
      [] type = "uint" -> "uint"
      [] type = "long" -> "long"
      [] type = "ulong" -> "ulong"
      [] type = "bool" -> "bool"
      [] type = "string" -> "string"
      [] OTHER -> "double"

\* the type of a column of a type string: int, uint, long, ulong, double,
\* bool, string; other values lead to the "double" type
StringToType(type) ==
    CASE type = "int" -> "int"
      [] type = "uint" -> "uint"
      [] type = "long" -> "long"
      [] type = "ulong" -> "ulong"
      [] type = "double" -> "double"
      [] type = "bool" -> "bool"
      [] type = "string" -> "string"
      [] OTHER -> "double"

\* a table of a name in a directory, created with a map of columns: the names
\* of the columns follow the naming of directories and type tables
CreateConstantsTypeTableColumns(name, parentPath, rowsNumber, cols) ==
    /\ IF ~ValidateName(name) \/ \E c \in DOMAIN cols : ~ValidateName(c)
       THEN /\ mErrors' = Error(ClearErrors, ValidationFailed)
            /\ last' = Call("CreateConstantsTypeTable", NULL)
            /\ UNCHANGED <<typeTables, nextId, columns>>
       ELSE IF parentPath \notin directories
       THEN /\ mErrors' = Error(ClearErrors, NotFound)
            /\ last' = Call("CreateConstantsTypeTable", NULL)
            /\ UNCHANGED <<typeTables, nextId, columns>>
       ELSE IF GetConstantsTypeTable(ChildPath(parentPath, name)) # NULL
       THEN /\ mErrors' = Error(ClearErrors, Conflict)
            /\ last' = Call("CreateConstantsTypeTable", NULL)
            /\ UNCHANGED <<typeTables, nextId, columns>>
       ELSE /\ nextId.table <= MaxIds
            /\ typeTables' = typeTables \cup
                    {[id |-> nextId.table, path |-> ChildPath(parentPath, name),
                      nRows |-> rowsNumber, nColumns |-> Cardinality(DOMAIN cols)]}
            /\ columns' = columns \cup
                    {[tableId |-> nextId.table, name |-> c,
                      type |-> StringToType(cols[c])] : c \in DOMAIN cols}
            /\ nextId' = [nextId EXCEPT !.table = @ + 1]
            /\ mErrors' = ClearErrors
            /\ last' = Call("CreateConstantsTypeTable", nextId.table)
    /\ UNCHANGED <<runRanges, variations, assignments, now, directoryRows, lex,
                   wild, paths, handles, calib>>
    /\ failures' = Len(mErrors')

\* a deletion that does not look at what the directory holds
DeleteDirectoryAt_NoGuard(op, fullPath) ==
    /\ IF fullPath = "/"
       THEN /\ mErrors' = Error(ClearErrors, ValidationFailed)
            /\ last' = Call(op, NULL)
            /\ UNCHANGED directoryRows
       ELSE IF fullPath \notin directories
       THEN /\ mErrors' = Error(ClearErrors, NotFound)
            /\ last' = Call(op, NULL)
            /\ UNCHANGED directoryRows
       ELSE /\ directoryRows' = {d \in directoryRows : d.path # fullPath}
            /\ mErrors' = ClearErrors
            /\ last' = Call(op, Success)
    /\ UNCHANGED <<typeTables, runRanges, variations, assignments, nextId, now,
                   lex, rest>>
    /\ failures' = Len(mErrors')
    /\ handles' = HandlesAfter(last'.res)

\* the non-recursive deletion: "/" can't be deleted, and neither can a
\* directory that has a subdirectory or a table
DeleteDirectoryAt(op, fullPath) ==
    /\ IF fullPath = "/"
       THEN /\ mErrors' = Error(ClearErrors, ValidationFailed)
            /\ last' = Call(op, NULL)
            /\ UNCHANGED directoryRows
       ELSE IF fullPath \notin directories
       THEN /\ mErrors' = Error(ClearErrors, NotFound)
            /\ last' = Call(op, NULL)
            /\ UNCHANGED directoryRows
       ELSE IF SubDirectories(fullPath) # {} \/ TablesIn(fullPath) # {}
       THEN /\ mErrors' = Error(ClearErrors, Conflict)
            /\ last' = Call(op, NULL)
            /\ UNCHANGED directoryRows
       ELSE /\ directoryRows' = {d \in directoryRows : d.path # fullPath}
            /\ mErrors' = ClearErrors
            /\ last' = Call(op, Success)
    /\ UNCHANGED <<typeTables, runRanges, variations, assignments, nextId, now,
                   lex, rest>>
    /\ failures' = Len(mErrors')
    /\ handles' = HandlesAfter(last'.res)

\* by path
DeleteDirectory(fullPath) == DeleteDirectoryAt("DeleteDirectory", fullPath)

\* by directory object: the object carries the path it was loaded with
DeleteDirectoryObject(dir) == DeleteDirectoryAt("DeleteDirectoryObject", dir)

\* a recursive deletion that takes the root as any other directory
RecursiveDeleteDirectory_TakesRoot(dir) ==
    /\ IF dir \notin directories
       THEN /\ mErrors' = Error(ClearErrors, NotFound)
            /\ last' = Call("RecursiveDeleteDirectory", NULL)
            /\ UNCHANGED <<directoryRows, typeTables, assignments>>
       ELSE /\ directoryRows' = {d \in directoryRows : d.path \notin SubTree(dir)}
            /\ typeTables' = typeTables \ UNION {TablesIn(d) : d \in SubTree(dir)}
            /\ assignments' = {a \in assignments :
                    \A d \in SubTree(dir) : \A t \in TablesIn(d) : a.tableId # t.id}
            /\ mErrors' = ClearErrors
            /\ last' = Call("RecursiveDeleteDirectory", Success)
    /\ UNCHANGED <<runRanges, variations, nextId, now, lex, rest>>
    /\ failures' = Len(mErrors')
    /\ handles' = HandlesAfter(last'.res)

\* deletes the directory and all tables and subdirectories in it, with the
\* assignments of these tables; the root is not deleted
RecursiveDeleteDirectory(dir) ==
    /\ IF dir = "/"
       THEN /\ mErrors' = Error(ClearErrors, ValidationFailed)
            /\ last' = Call("RecursiveDeleteDirectory", NULL)
            /\ UNCHANGED <<directoryRows, typeTables, assignments>>
       ELSE IF dir \notin directories
       THEN /\ mErrors' = Error(ClearErrors, NotFound)
            /\ last' = Call("RecursiveDeleteDirectory", NULL)
            /\ UNCHANGED <<directoryRows, typeTables, assignments>>
       ELSE /\ directoryRows' = {d \in directoryRows : d.path \notin SubTree(dir)}
            /\ typeTables' = typeTables \ UNION {TablesIn(d) : d \in SubTree(dir)}
            /\ assignments' = {a \in assignments :
                    \A d \in SubTree(dir) : \A t \in TablesIn(d) : a.tableId # t.id}
            /\ mErrors' = ClearErrors
            /\ last' = Call("RecursiveDeleteDirectory", Success)
    /\ UNCHANGED <<runRanges, variations, nextId, now, lex, rest>>
    /\ failures' = Len(mErrors')
    /\ handles' = HandlesAfter(last'.res)

\* ---------------------------------------------------------------- update of tables
\* the table objects a caller gives to the update: the id of the table and
\* the name, parent, rows and columns as the caller has set them
TableObjects ==
    [id : 1..MaxIds, path : TablePaths \cup {"/d/a"}, nRows : {1, 2}, nColumns : {2, 3}]

\* the directory of the table of a path
ParentPath(path) ==
    CHOOSE parent \in DirPaths : \E name \in TableNames : path = ChildPath(parent, name)

\* an update that stores the object as it is given
UpdateConstantsTypeTable_StoresAll(table) ==
    /\ IF ~\E t \in typeTables : t.id = table.id
       THEN /\ mErrors' = Error(ClearErrors, NotFound)
            /\ last' = Call("UpdateConstantsTypeTable", NULL)
            /\ UNCHANGED typeTables
       ELSE /\ typeTables' = (typeTables \ {TableById(table.id)}) \cup {table}
            /\ mErrors' = ClearErrors
            /\ last' = Call("UpdateConstantsTypeTable", Success)
    /\ UNCHANGED <<runRanges, variations, assignments, nextId, now, directoryRows, lex, rest, handles>>
    /\ failures' = Len(mErrors')

\* updates only name, parent directory and comments; doesn't change any
\* columns and rows number
UpdateConstantsTypeTable(table) ==
    /\ IF ~\E t \in typeTables : t.id = table.id
       THEN /\ mErrors' = Error(ClearErrors, NotFound)
            /\ last' = Call("UpdateConstantsTypeTable", NULL)
            /\ UNCHANGED typeTables
       ELSE IF ParentPath(table.path) \notin directories
       THEN /\ mErrors' = Error(ClearErrors, NotFound)
            /\ last' = Call("UpdateConstantsTypeTable", NULL)
            /\ UNCHANGED typeTables
       ELSE IF \E t \in typeTables : t.path = table.path /\ t.id # table.id
       THEN /\ mErrors' = Error(ClearErrors, Conflict)
            /\ last' = Call("UpdateConstantsTypeTable", NULL)
            /\ UNCHANGED typeTables
       ELSE /\ typeTables' = (typeTables \ {TableById(table.id)}) \cup
                    {[TableById(table.id) EXCEPT !.path = table.path]}
            /\ mErrors' = ClearErrors
            /\ last' = Call("UpdateConstantsTypeTable", Success)
    /\ UNCHANGED <<runRanges, variations, assignments, nextId, now, directoryRows, lex, rest, handles>>
    /\ failures' = Len(mErrors')

\* ---------------------------------------------------------------- directory objects
GetDirectory(path) ==
    /\ IF path \in directories
       THEN /\ handles' = [handles EXCEPT ![path] = "valid"]
            /\ mErrors' = ClearErrors
            /\ last' = Call("GetDirectory", Success)
       ELSE /\ UNCHANGED handles
            /\ mErrors' = Error(ClearErrors, NotFound)
            /\ last' = Call("GetDirectory", NULL)
    /\ UNCHANGED <<typeTables, runRanges, variations, assignments, nextId, now,
                   directoryRows, lex, rest>>
    /\ failures' = Len(mErrors')

GetRootDirectory ==
    /\ handles' = [handles EXCEPT !["/"] = "valid"]
    /\ mErrors' = ClearErrors
    /\ last' = Call("GetRootDirectory", Success)
    /\ UNCHANGED <<typeTables, runRanges, variations, assignments, nextId, now,
                   directoryRows, lex, rest>>
    /\ failures' = Len(mErrors')

\* the directory keeps its path; what is updated is its comment
UpdateDirectory(dir) ==
    /\ IF dir \notin directories
       THEN /\ mErrors' = Error(ClearErrors, NotFound)
            /\ last' = Call("UpdateDirectory", NULL)
       ELSE /\ mErrors' = ClearErrors
            /\ last' = Call("UpdateDirectory", Success)
    /\ UNCHANGED <<typeTables, runRanges, variations, assignments, nextId, now,
                   directoryRows, lex, rest>>
    /\ failures' = Len(mErrors')
    /\ handles' = HandlesAfter(last'.res)

\* ---------------------------------------------------------------- error log
\* a call of Error from outside an operation: one more error is logged
LogError(errorCode) ==
    /\ failures < MaxFailures
    /\ mErrors' = Error(mErrors, errorCode)
    /\ failures' = failures + 1
    /\ last' = Call("Error", NULL)
    /\ UNCHANGED <<typeTables, runRanges, variations, assignments, nextId, now,
                   directoryRows, lex, rest, handles>>

\* a call of ClearErrors
ClearErrorsCall ==
    /\ mErrors' = ClearErrors
    /\ failures' = 0
    /\ last' = Call("ClearErrors", NULL)
    /\ UNCHANGED <<typeTables, runRanges, variations, assignments, nextId, now,
                   directoryRows, lex, rest, handles>>

\* ---------------------------------------------------------------- tokenizer
\* The rules of LexicalSplit: '#' outside quotes starts a comment to the end of
\* the line; a quoted value sticks to the symbols next to it; a quoted value
\* with no ending quote is taken until the end of the line.
LexicalRules == [comments |-> TRUE, sticks |-> TRUE, openQuote |-> TRUE, escapes |-> TRUE]

\* The scan of the line from position i: tokens are the values read so far,
\* value the one being read, and mode tells whether no value is being read
\* ("blank"), one is outside quotes ("value") or inside quotes ("string").
RECURSIVE Scan(_, _, _, _, _, _)
Scan(source, i, tokens, value, mode, rules) ==
    IF i > Len(source)
    THEN IF mode = "blank" \/ (mode = "string" /\ ~rules.openQuote)
         THEN tokens ELSE Append(tokens, value)
    ELSE IF mode = "string"
    THEN IF rules.escapes /\ source[i] = "\\" /\ i < Len(source) /\ source[i + 1] = "\""
         THEN Scan(source, i + 2, tokens, Append(value, "\""), "string", rules)
         ELSE IF source[i] = "\""
         THEN IF rules.sticks
              THEN Scan(source, i + 1, tokens, value, "value", rules)
              ELSE Scan(source, i + 1, Append(tokens, value), << >>, "blank", rules)
         ELSE Scan(source, i + 1, tokens, Append(value, source[i]), "string", rules)
    ELSE IF source[i] \in CCDB_BLANK_CHARACTERS
    THEN IF mode = "value"
         THEN Scan(source, i + 1, Append(tokens, value), << >>, "blank", rules)
         ELSE Scan(source, i + 1, tokens, value, "blank", rules)
    ELSE IF source[i] = "#" /\ rules.comments
    THEN IF mode = "value" THEN Append(tokens, value) ELSE tokens
    ELSE IF source[i] = "\""
    THEN IF rules.sticks \/ mode = "blank"
         THEN Scan(source, i + 1, tokens, value, "string", rules)
         ELSE Scan(source, i + 1, Append(tokens, value), << >>, "string", rules)
    ELSE Scan(source, i + 1, tokens, Append(value, source[i]), "value", rules)

\* a tokenizer to which '#' is a symbol as any other
LexicalSplit_NoComments(source) ==
    Scan(source, 1, << >>, << >>, "blank", [LexicalRules EXCEPT !.comments = FALSE])

\* a tokenizer to which a quote is the border of a value
LexicalSplit_QuoteSeparates(source) ==
    Scan(source, 1, << >>, << >>, "blank", [LexicalRules EXCEPT !.sticks = FALSE])

\* a tokenizer that drops a quoted value with no ending quote
LexicalSplit_DropsOpenQuote(source) ==
    Scan(source, 1, << >>, << >>, "blank", [LexicalRules EXCEPT !.openQuote = FALSE])

\* a tokenizer to which the quote after a backslash ends the quoted value
LexicalSplit_NoEscapes(source) ==
    Scan(source, 1, << >>, << >>, "blank", [LexicalRules EXCEPT !.escapes = FALSE])

LexicalSplit(source) == Scan(source, 1, << >>, << >>, "blank", LexicalRules)

\* the call of LexicalSplit on the line
Split ==
    /\ ~lex.split
    /\ lex' = [source |-> lex.source, tokens |-> LexicalSplit(lex.source), split |-> TRUE]
    /\ UNCHANGED <<typeTables, runRanges, variations, assignments, nextId, now,
                   mErrors, last, directoryRows, failures, rest, handles>>

\* ---------------------------------------------------------------- wildcards
\* The match of the pattern from position i with the source from position j:
\* '*' takes any run of characters, '?' takes one character, any other
\* character takes itself; whole tells whether the source must end with the
\* pattern.
RECURSIVE Match(_, _, _, _, _)
Match(pattern, i, source, j, whole) ==
    IF i > Len(pattern) THEN (~whole \/ j > Len(source))
    ELSE IF pattern[i] = "*"
    THEN \/ Match(pattern, i + 1, source, j, whole)
         \/ j <= Len(source) /\ Match(pattern, i, source, j + 1, whole)
    ELSE /\ j <= Len(source)
         /\ pattern[i] = "?" \/ pattern[i] = source[j]
         /\ Match(pattern, i + 1, source, j + 1, whole)

\* a check that is content with the beginning of the source
WildCardCheck_Prefix(pattern, source) == Match(pattern, 1, source, 1, FALSE)

WildCardCheck(pattern, source) == Match(pattern, 1, source, 1, TRUE)

\* the call of WildCardCheck on the pattern and the name
Check ==
    /\ ~wild.checked
    /\ wild' = [wild EXCEPT !.checked = TRUE,
                            !.result = WildCardCheck(wild.pattern, wild.source)]
    /\ UNCHANGED <<typeTables, runRanges, variations, assignments, nextId, now,
                   mErrors, last, directoryRows, failures, lex, paths, handles, columns, calib>>

\* ---------------------------------------------------------------- paths
\* the position of the last '/' of the path, 0 when it has none
LastSeparator(path) ==
    IF \E i \in 1..Len(path) : path[i] = "/"
    THEN CHOOSE i \in 1..Len(path) :
            path[i] = "/" /\ \A j \in (i + 1)..Len(path) : path[j] # "/"
    ELSE 0

\* an extraction that keeps the '/' before the object
ExtractDirectory_KeepsSeparator(path) == SubSeq(path, 1, LastSeparator(path))

\* in /dir/subdir/object will return /dir/subdir
ExtractDirectory(path) == SubSeq(path, 1, LastSeparator(path) - 1)

\* the two parts with one '/' between them, whether the left part ends with
\* one, the right part begins with one, both or none
CombinePath(left, right) ==
    LET leftEnds == left # << >> /\ left[Len(left)] = "/"
        rightBegins == right # << >> /\ right[1] = "/"
    IN  IF leftEnds /\ rightBegins THEN left \o Tail(right)
        ELSE IF leftEnds \/ rightBegins THEN left \o right
        ELSE left \o <<"/">> \o right

\* the call of CombinePath on the two parts and of ExtractDirectory on the result
CombineAndExtract ==
    /\ ~paths.done
    /\ LET combined == CombinePath(paths.left, paths.right)
       IN  paths' = [paths EXCEPT !.combined = combined,
                                  !.directory = ExtractDirectory(combined),
                                  !.done = TRUE]
    /\ UNCHANGED <<typeTables, runRanges, variations, assignments, nextId, now,
                   mErrors, last, directoryRows, failures, lex, wild, handles, columns, calib>>

\* ---------------------------------------------------------------- jana
\* GetCalib(namepath, svals): the retrieval in a try block; catch
\* (std::exception) returns false, any other exception goes to the caller
GetCalibMap(namepath, retrieval) ==
    /\ calib' = [calib EXCEPT
            !.call = "GetCalib(map)",
            !.namepath = namepath,
            !.retrieval = retrieval,
            !.returned = IF retrieval = "std::exception" THEN "false" ELSE retrieval]
    /\ UNCHANGED <<typeTables, runRanges, variations, assignments, nextId, now,
                   mErrors, last, directoryRows, failures, lex, wild, paths, handles,
                   columns>>

\* GetCalib(namepath, vsvals): the retrieval outside of any try block, its
\* value dropped, and no return statement.  What the retrieval throws goes to
\* the caller; when it returns, the function of type bool flows off its end,
\* and the caller gets true, gets false or the program stops.
GetCalibVector(namepath, retrieval) ==
    /\ \E returned \in IF retrieval \in {"std::exception", "exception"}
                        THEN {retrieval}
                        ELSE {"true", "false", "trap"} :
            calib' = [calib EXCEPT
                !.call = "GetCalib(vector)",
                !.namepath = namepath,
                !.retrieval = retrieval,
                !.returned = returned]
    /\ UNCHANGED <<typeTables, runRanges, variations, assignments, nextId, now,
                   mErrors, last, directoryRows, failures, lex, wild, paths, handles,
                   columns>>

\* ---------------------------------------------------------------- specification
\* the operations that add to the store, and the clock
Create ==
    \/ Tick
    \/ \E path \in TablePaths, r \in RowCounts, c \in ColumnCounts :
            CreateConstantsTypeTable(path, r, c)
    \/ \E name \in VariationNames : CreateVariation(name, "default")
    \/ \E data \in DataSets, path \in TablePaths, iv \in RunIntervals,
          v \in VariationNames :
            CreateAssignment(data, path, iv[1], iv[2], v, "c0")

\* the operations that write to the store
Write ==
    \/ Create
    \/ \E id \in AssignmentIds, c \in Comments : UpdateAssignment(id, c)
    \/ \E id \in AssignmentIds : DeleteAssignment(id)

\* the resolver: it reads the store and leaves it as it is
Read ==
    \/ \E run \in Runs, path \in TablePaths, v \in VariationNames :
            GetAssignmentShort(run, path, v)
    \/ \E run \in Runs, path \in TablePaths, t \in Times, v \in VariationNames :
            GetAssignmentShortTime(run, path, t, v)
    \/ \E run \in Runs, path \in TablePaths, k \in Versions, v \in VariationNames :
            GetAssignmentShortByVersion(run, path, k, v)
    \/ \E run \in Runs, path \in TablePaths, v \in VariationNames :
            GetAssignmentFull(run, path, v)
    \/ \E run \in Runs, path \in TablePaths, k \in Versions, v \in VariationNames :
            GetAssignmentFullByVersion(run, path, k, v)

Next == Write \/ Read

Spec == Init /\ [][Next]_vars

\* The store under the writing operations alone.  No writing operation reads
\* last or mErrors, the only variables a resolver call changes, so the stores
\* SpecWrite reaches are the stores Spec reaches.
SpecWrite == Init /\ [][Write]_vars

\* The store while nothing is updated or deleted: every assignment ever created
\* is in it as it was created.
SpecCreate == Init /\ [][Create]_vars

\* the guarded deletions
\* (the deletion of "default" is among the operations on variations below)
Delete ==
    \/ \E id \in AssignmentIds : DeleteAssignment(id)
    \/ \E path \in TablePaths : DeleteConstantsTypeTable(path)
    \/ \E id \in RunRangeIds : DeleteRunRange(id)
    \/ \E name \in VariationNames \ {"default"} : DeleteVariation(name)

\* The store under creations and guarded deletions.
SpecDelete == Init /\ [][Create \/ Delete]_vars

\* the operations on the tree of directories, with the tables in it
Tree ==
    \/ \E name \in DirNames \cup InvalidNames, parent \in DirPaths :
            MakeDirectory(name, parent)
    \/ \E name \in {"t"} \cup InvalidNames, parent \in DirPaths,
          r \in RowCounts, c \in ColumnCounts :
            CreateConstantsTypeTableIn(name, parent, r, c)
    \/ \E parent \in DirPaths : DeleteConstantsTypeTable(ChildPath(parent, "t"))
    \/ \E path \in DirPaths : DeleteDirectory(path)
    \/ \E dir \in DirPaths : DeleteDirectoryObject(dir)
    \/ \E dir \in DirPaths : RecursiveDeleteDirectory(dir)

\* The tree of directories under its operations.
SpecTree == Init /\ [][Tree]_vars

\* the error log under calls of Error and ClearErrors
Log ==
    \/ \E code \in {InternalFailed} : LogError(code)
    \/ ClearErrorsCall

SpecLog == Init /\ [][Log]_vars

\* the tokenizer on every line
SpecLex == InitLex /\ [][Split]_vars

\* the wildcard check on every pattern and name
SpecWild == InitWild /\ [][Check]_vars

\* the path helpers on every two parts
SpecPath == InitPath /\ [][CombineAndExtract]_vars

\* the Directory objects of a caller under the operations on directories
Held ==
    \/ GetRootDirectory
    \/ \E path \in DirPaths : GetDirectory(path)
    \/ \E name \in DirNames, parent \in DirPaths : MakeDirectory(name, parent)
    \/ \E dir \in DirPaths : UpdateDirectory(dir)
    \/ \E path \in DirPaths : DeleteDirectory(path)
    \/ \E dir \in DirPaths : DeleteDirectoryObject(dir)
    \/ \E dir \in DirPaths : RecursiveDeleteDirectory(dir)

SpecHeld == Init /\ [][Held]_vars

\* the tables under creation, update and deletion
Tables ==
    \/ MakeDirectory("d", "/")
    \/ \E path \in TablePaths, r \in RowCounts, c \in ColumnCounts :
            /\ nextId.table <= MaxIds
            /\ CreateConstantsTypeTable(path, r, c)
    \/ \E table \in TableObjects : UpdateConstantsTypeTable(table)
    \/ \E path \in TablePaths \cup {"/d/a"} : DeleteConstantsTypeTable(path)

SpecTables == Init /\ [][Tables]_vars

\* the variations under creation, update and deletion, with a table and
\* assignments that refer to them
Variations ==
    \/ \E r \in RowCounts, c \in ColumnCounts : CreateConstantsTypeTable("/a", r, c)
    \/ \E name \in VariationNames \cup {"test"} : CreateVariation(name, "default")
    \/ \E v \in VariationNames :
            CreateAssignment(<< <<"1", "2">> >>, "/a", 1, 3, v, "c0")
    \/ \E variation \in VariationObjects : UpdateVariation(variation)
    \/ \E name \in VariationNames \cup {"test"} : DeleteVariation(name)
    \/ \E name \in VariationNames \cup {"test"} : RecursiveDeleteVariation(name)

SpecVariations == Init /\ [][Variations]_vars

\* the run ranges under creation and update
RunRanges ==
    \/ \E min \in 1..3, max \in 1..3, name \in {"", "r"} :
            GetOrCreateRunRangeCall(min, max, name)
    \/ \E run \in RunRangeObjects : UpdateRunRange(run)

SpecRunRanges == Init /\ [][RunRanges]_vars

\* the store and the tree under every operation that creates, updates or
\* deletes, the recursive deletions among them
NonRecursive ==
    \/ MakeDirectory("d", "/")
    \/ \E parent \in {"/", "/d"} : CreateConstantsTypeTableIn("a", parent, 1, 2)
    \/ CreateVariation("mc", "default")
    \/ \E path \in {"/a", "/d/a"}, v \in VariationNames :
            CreateAssignment(<< <<"1", "2">> >>, path, 1, 3, v, "c0")
    \/ \E table \in {t \in TableObjects : t.nRows = 1 /\ t.nColumns = 2
                                          /\ t.path \in {"/a", "/d/a"}} :
            UpdateConstantsTypeTable(table)
    \/ \E id \in AssignmentIds : DeleteAssignment(id)
    \/ \E path \in {"/a", "/d/a"} : DeleteConstantsTypeTable(path)
    \/ \E id \in RunRangeIds : DeleteRunRange(id)
    \/ \E name \in VariationNames : DeleteVariation(name)
    \/ DeleteDirectory("/d")

Recursive ==
    \/ \E dir \in {"/", "/d"} : RecursiveDeleteDirectory(dir)
    \/ \E path \in {"/a", "/d/a"} : RecursiveDeleteTypeTable(path)
    \/ \E id \in RunRangeIds : RecursiveDeleteRunRange(id)
    \/ \E name \in VariationNames : RecursiveDeleteVariation(name)

SpecIntegrity == Init /\ [][NonRecursive \/ Recursive]_vars

\* the assignments of one table under creation and deletion
Versioned ==
    \/ \E r \in RowCounts, c \in ColumnCounts : CreateConstantsTypeTable("/a", r, c)
    \/ CreateVariation("mc", "default")
    \/ \E iv \in RunIntervals, v \in VariationNames :
            CreateAssignmentUpTo(MaxVersions, << <<"1", "2">> >>, "/a", iv[1], iv[2], v, "c0")
    \/ \E id \in 1..MaxVersions : DeleteAssignment(id)

SpecVersions == Init /\ [][Versioned]_vars

\* the two forms of the retrieval, of the latest and of a version
Forms ==
    \/ \E run \in Runs, path \in TablePaths, v \in VariationNames :
            GetAssignmentShort(run, path, v)
    \/ \E run \in Runs, path \in TablePaths, k \in Versions, v \in VariationNames :
            GetAssignmentShortByVersion(run, path, k, v)
    \/ \E run \in Runs, path \in TablePaths, v \in VariationNames :
            GetAssignmentFull(run, path, v)
    \/ \E run \in Runs, path \in TablePaths, k \in Versions, v \in VariationNames :
            GetAssignmentFullByVersion(run, path, k, v)

\* the assignments of one table that the two forms are asked for
Stored ==
    \/ Tick
    \/ \E r \in RowCounts, c \in ColumnCounts : CreateConstantsTypeTable("/a", r, c)
    \/ CreateVariation("mc", "default")
    \/ \E iv \in RunIntervals, v \in VariationNames :
            CreateAssignment(<< <<"1", "2">> >>, "/a", iv[1], iv[2], v, "c0")
    \/ \E id \in AssignmentIds : DeleteAssignment(id)

\* the store under creations and deletions of assignments, and the two forms
SpecForms == Init /\ [][Stored \/ Forms]_vars

\* the tables that are created with a map of columns
Columns ==
    \E name \in {"a", "b"} \cup InvalidNames, parent \in {"/", "/d"},
       r \in RowCounts, cols \in ColumnMaps :
        CreateConstantsTypeTableColumns(name, parent, r, cols)

SpecColumns == Init /\ [][Columns]_vars

\* the calls of a user of JCalibrationCCDB
Calibrate ==
    \/ \E namepath \in NamePaths, retrieval \in Retrievals :
            GetCalibMap(namepath, retrieval)
    \/ \E namepath \in NamePaths, retrieval \in Retrievals :
            GetCalibVector(namepath, retrieval)

SpecCalib == InitCalib /\ [][Calibrate]_vars

\* ---------------------------------------------------------------- claims
ResolverOps ==
    {"GetAssignmentShort", "GetAssignmentShortTime", "GetAssignmentShortByVersion",
     "GetAssignmentFull", "GetAssignmentFullByVersion"}

IdsOf(S) == {a.id : a \in S}

Contains(runRangeId, run) ==
    RunRangeById(runRangeId).min <= run /\ run <= RunRangeById(runRangeId).max

NoneDeleted == Cardinality(assignments) = nextId.assignment - 1

\* C1: while no assignment has been deleted, the versions of the assignments
\* of one (table, run range, variation) scope are 1..N in creation order: the
\* version of each is its position among the creations of its scope.
C1_VersionsCountCreations ==
    NoneDeleted =>
        \A a \in assignments :
            a.version = Cardinality({b \in Scope(a.tableId, a.runRangeId, a.variationId) :
                                        b.id <= a.id})

\* two creations in one scope, and none deleted
C1_Witness ==
    /\ NoneDeleted
    /\ \E a, b \in assignments :
            /\ a.id < b.id
            /\ b \in Scope(a.tableId, a.runRangeId, a.variationId)
            /\ a.version = 1 /\ b.version = 2

\* C2: resolution by version K (short or full form) returns the K-th of the
\* candidates in ascending creation order, K counted from 1: the candidate that
\* K-1 candidates were created before; NULL when K exceeds their number.
C2_ByVersionIsKthCreated ==
    \A run \in Runs, path \in TablePaths, k \in Versions, v \in VariationNames :
        LET C == Candidates(run, path, v)
        IN  \A res \in Returned(ByVersion(C, k)) :
                IF k > Cardinality(C)
                THEN res = NULL
                ELSE /\ res \in IdsOf(C)
                     /\ Cardinality({b \in C : b.id < res}) = k - 1

\* A by-version call returned the assignment created second although it is the
\* first of its own (table, run range, variation) scope: no single run range
\* holds both, so K counted the candidates of the run across run ranges.
C2_Witness ==
    /\ last.op \in {"GetAssignmentShortByVersion", "GetAssignmentFullByVersion"}
    /\ last.res # NULL
    /\ \E a, r \in assignments :
            /\ r.id = last.res
            /\ a.id < r.id
            /\ r.version = 1
            /\ a.runRangeId # r.runRangeId
            /\ \A t \in typeTables : \A n \in VariationNames :
                    \A run \in Runs : \A k \in Versions :
                        r \in ByVersion(Candidates(run, t.path, n), k) => k = 2

\* C3: resolution as of time T returns a candidate created at or before T that
\* no candidate created at or before T is later than; NULL when no candidate
\* was created at or before T.
C3_AsOfTimeIsLatestUpToT ==
    \A run \in Runs, path \in TablePaths, t \in Times, v \in VariationNames :
        LET C == Candidates(run, path, v)
            E == {a \in C : a.created <= t}
        IN  \A res \in Returned(AsOfTime(C, t)) :
                IF E = {}
                THEN res = NULL
                ELSE /\ res \in IdsOf(E)
                     /\ \A b \in E : b.created <= AssignmentById(res).created

\* An as-of-time call returned an assignment of a scope that holds a later
\* one: whatever the run, the later one was a candidate too, and the cutoff
\* left it out.
C3_Witness ==
    /\ last.op = "GetAssignmentShortTime"
    /\ last.res # NULL
    /\ \E r, b \in assignments :
            /\ r.id = last.res
            /\ b \in Scope(r.tableId, r.runRangeId, r.variationId)
            /\ b.created > r.created

\* every run of every table has a candidate under the variation "default"
\* created by time 2, and none under any other variation
DefaultCoversAll ==
    /\ \A path \in TablePaths : GetConstantsTypeTable(path) # NULL
    /\ \A path \in TablePaths : \A run \in Runs :
            \E a \in Candidates(run, path, "default") : a.created <= 2
    /\ \A a \in assignments : VariationById(a.variationId).name = "default"

\* C4: latest resolution (short or full form) returns a candidate of the
\* greatest creation time and, among the candidates of that creation time, of
\* the highest version.
C4_LatestIsMaxCreatedThenVersion ==
    \A run \in Runs, path \in TablePaths, v \in VariationNames :
        LET C == Candidates(run, path, v)
        IN  \A res \in Returned(Latest(C)) :
                C # {} =>
                    /\ res \in IdsOf(C)
                    /\ \A b \in C :
                        /\ b.created <= AssignmentById(res).created
                        /\ b.created = AssignmentById(res).created
                            => b.version <= AssignmentById(res).version

\* A latest call returned version 2 of a scope whose version 1 has the same
\* creation time: both were candidates of whatever run was asked for.
C4_Witness ==
    /\ last.op \in {"GetAssignmentShort", "GetAssignmentFull"}
    /\ last.res # NULL
    /\ \E r, b \in assignments :
            /\ r.id = last.res
            /\ b \in Scope(r.tableId, r.runRangeId, r.variationId)
            /\ b.created = r.created
            /\ b.version < r.version

\* C5: resolution as of time T, when several candidates created at or before
\* T share the greatest creation time, returns the one of the highest version.
C5_AsOfTimeTieIsHighestVersion ==
    \A run \in Runs, path \in TablePaths, t \in Times, v \in VariationNames :
        LET C == Candidates(run, path, v)
            E == {a \in C : a.created <= t}
        IN  \A a, b \in E :
                (/\ a.id # b.id
                 /\ a.created = b.created
                 /\ \A c \in E : c.created <= a.created
                 /\ a.version < b.version)
                => a.id \notin Returned(AsOfTime(C, t))

\* An as-of-time call returned version 2 of a scope whose version 1 has the
\* same creation time.
C5_Witness ==
    /\ last.op = "GetAssignmentShortTime"
    /\ last.res # NULL
    /\ \E r, b \in assignments :
            /\ r.id = last.res
            /\ b \in Scope(r.tableId, r.runRangeId, r.variationId)
            /\ b.created = r.created
            /\ b.version < r.version

\* what a resolver call of any mode may return for a run, path and variation
ReturnedInAnyMode(run, path, v) ==
    LET C == Candidates(run, path, v)
    IN  UNION ({Returned(Latest(C))}
               \cup {Returned(AsOfTime(C, t)) : t \in Times}
               \cup {Returned(ByVersion(C, k)) : k \in Versions})

\* C6: in every mode, an assignment the resolver returns is stored, belongs to
\* the table of the requested path, has a run range with min <= run <= max and
\* a variation of exactly the requested name; a path with no table gives NULL.
C6_ResultMatchesQuery ==
    \A run \in Runs, path \in TablePaths, v \in VariationNames :
        \A res \in ReturnedInAnyMode(run, path, v) :
            /\ (\A t \in typeTables : t.path # path) => res = NULL
            /\ res # NULL =>
                \E a \in assignments :
                    /\ a.id = res
                    /\ \E t \in typeTables : t.id = a.tableId /\ t.path = path
                    /\ \E r \in runRanges :
                            r.id = a.runRangeId /\ r.min <= run /\ run <= r.max
                    /\ \E n \in variations :
                            n.id = a.variationId /\ n.name = v

\* A latest call found nothing although every table has, for every run, an
\* assignment under "default": the call asked for the variation "mc", whose
\* parent is "default", and the parent's assignments were not returned.
C6_Witness ==
    /\ last.op = "GetAssignmentShort"
    /\ last.res = NULL
    /\ DefaultCoversAll
    /\ \E n, d \in variations :
            n.name = "mc" /\ d.name = "default" /\ n.parentId = d.id

\* C7: an assignment that a step keeps has, after the step, the data, version,
\* creation time, table, run range and variation it had before; a call of
\* UpdateAssignment keeps every assignment and changes nothing else of the store.
C7_AssignmentsImmutable ==
    [][/\ \A a \in assignments : \A b \in assignments' :
            a.id = b.id =>
                /\ b.data = a.data
                /\ b.version = a.version
                /\ b.created = a.created
                /\ b.tableId = a.tableId
                /\ b.runRangeId = a.runRangeId
                /\ b.variationId = a.variationId
       /\ last'.op = "UpdateAssignment" =>
            \A id \in AssignmentIds, c \in Comments :
                UpdateAssignment(id, c) =>
                    /\ IdsOf(assignments') = IdsOf(assignments)
                    /\ UNCHANGED <<typeTables, runRanges, variations, nextId>>]_vars

\* UpdateAssignment has given an assignment created before the present time
\* another comment than the one it was created with
C7_Witness ==
    /\ last.op = "UpdateAssignment"
    /\ last.res # NULL
    /\ \E a \in assignments :
            a.id = last.res /\ a.comment = "c1" /\ a.created < now

TableExists(path) == \E t \in typeTables : t.path = path

DataFits(data, path) ==
    \E t \in typeTables :
        /\ t.path = path
        /\ Len(data) = t.nRows
        /\ \A i \in 1..Len(data) : Len(data[i]) = t.nColumns

VariationExists(name) == \E v \in variations : v.name = name

RunRangeExists(rs, min, max, name) ==
    \E r \in rs : r.min = min /\ r.max = max /\ r.name = name

\* the call returned NULL, left tables, run ranges, variations, assignments and
\* id counters as they were, and holds one error
FailedAndWroteNothing ==
    /\ last'.res = NULL
    /\ UNCHANGED store
    /\ Len(mErrors') = 1

\* C8: a CreateAssignment call whose table path does not exist, or whose data
\* has another number of rows than the table, or a row with another number of
\* tokens than the table has columns, returns NULL, writes nothing and holds an
\* error: a CreateAssignment step that does not end so was called with data
\* that fits an existing table.
C8_InvalidCreateWritesNothing ==
    [][last'.op = "CreateAssignment" =>
        \/ FailedAndWroteNothing
        \/ \A data \in DataSets, path \in TablePaths, iv \in RunIntervals,
              v \in VariationNames :
                CreateAssignment(data, path, iv[1], iv[2], v, "c0")
                => DataFits(data, path)]_vars

\* a CreateAssignment call has failed on a store that holds a table, and the
\* error is the one of data that does not fit
C8_Witness ==
    /\ last.op = "CreateAssignment"
    /\ last.res = NULL
    /\ typeTables # {}
    /\ mErrors = <<ValidationFailed>>

\* C9 as stated: a CreateAssignment call on an existing table with fitting data
\* succeeds whatever run range and variation it names, and both exist after it.
C9_Original_RunRangeAndVariationOnDemand ==
    [][last'.op = "CreateAssignment" =>
        \A data \in DataSets, path \in TablePaths, iv \in RunIntervals,
           v \in VariationNames :
            (/\ DataFits(data, path)
             /\ CreateAssignment(data, path, iv[1], iv[2], v, "c0"))
            => /\ last'.res # NULL
               /\ RunRangeExists(runRanges', iv[1], iv[2], "")
               /\ \E n \in variations' : n.name = v]_vars

\* C9 amended: a CreateAssignment call on an existing table with fitting data
\* and an existing variation succeeds; the run range it names is looked up and
\* created only when it does not exist yet, and the new assignment refers to
\* it; no CreateAssignment call creates a variation.
C9_RunRangeOnDemand ==
    [][last'.op = "CreateAssignment" =>
        /\ variations' = variations
        /\ \A data \in DataSets, path \in TablePaths, iv \in RunIntervals,
              v \in VariationNames :
                (/\ DataFits(data, path)
                 /\ VariationExists(v)
                 /\ CreateAssignment(data, path, iv[1], iv[2], v, "c0"))
                => /\ last'.res # NULL
                   /\ RunRangeExists(runRanges, iv[1], iv[2], "")
                        => runRanges' = runRanges
                   /\ \E a \in assignments' \ assignments : \E r \in runRanges' :
                        /\ a.id = last'.res
                        /\ r.id = a.runRangeId
                        /\ r.min = iv[1] /\ r.max = iv[2]]_vars

\* the last call created an assignment whose run range no other assignment
\* has ever referred to: the call created the run range
C9_Witness ==
    /\ last.op = "CreateAssignment"
    /\ last.res # NULL
    /\ NoneDeleted
    /\ Cardinality(assignments) = 2
    /\ \E a \in assignments :
            /\ a.id = last.res
            /\ \A b \in assignments : b.id # a.id => b.runRangeId # a.runRangeId

\* C10: a CreateAssignment call that succeeds with run bounds no run range had
\* adds exactly one run range, of these bounds and with no name; a call that
\* names a variation that does not exist returns NULL and does nothing: a
\* CreateAssignment step that does not end so named an existing variation.
C10_NewRunRangeUnnamedNoVariationNoAction ==
    [][last'.op = "CreateAssignment" =>
        /\ last'.res # NULL =>
            \A data \in DataSets, path \in TablePaths, iv \in RunIntervals,
               v \in VariationNames :
                (/\ \A r \in runRanges : ~(r.min = iv[1] /\ r.max = iv[2])
                 /\ CreateAssignment(data, path, iv[1], iv[2], v, "c0"))
                => \E r \in runRanges' :
                        /\ runRanges' = runRanges \cup {r}
                        /\ r \notin runRanges
                        /\ r.min = iv[1] /\ r.max = iv[2] /\ r.name = ""
        /\ \/ last'.res = NULL /\ UNCHANGED store
           \/ \A data \in DataSets, path \in TablePaths, iv \in RunIntervals,
                 v \in VariationNames :
                    CreateAssignment(data, path, iv[1], iv[2], v, "c0")
                    => VariationExists(v)]_vars

\* a CreateAssignment call has failed although every table exists and holds an
\* error of a missing object: it named the variation that does not exist
C10_Witness ==
    /\ last.op = "CreateAssignment"
    /\ last.res = NULL
    /\ \A path \in TablePaths : TableExists(path)
    /\ mErrors = <<NotFound>>
    /\ \E n \in VariationNames : ~VariationExists(n)

HasAssignments(path) ==
    \E a \in assignments : a.tableId = GetConstantsTypeTable(path)

\* C11: a DeleteConstantsTypeTable call for a table that has an assignment
\* returns failure with the error Conflict and leaves tables and assignments
\* as they were; a call for a table with no assignment succeeds and the table
\* is gone.
C11_TableDeletionGuard ==
    [][last'.op = "DeleteConstantsTypeTable" =>
        \A path \in TablePaths :
            DeleteConstantsTypeTable(path) =>
                /\ (TableExists(path) /\ HasAssignments(path))
                    => /\ last'.res = NULL
                       /\ mErrors' = <<Conflict>>
                       /\ UNCHANGED store
                /\ (TableExists(path) /\ ~HasAssignments(path))
                    => /\ last'.res = GetConstantsTypeTable(path)
                       /\ \A t \in typeTables' : t.path # path
                       /\ mErrors' = << >>]_vars

\* The only table ever created has been deleted after assignments were
\* created for it and removed again.
C11_Witness ==
    /\ last.op = "DeleteConstantsTypeTable"
    /\ last.res # NULL
    /\ nextId.table = 2
    /\ typeTables = {}
    /\ nextId.assignment > 1
    /\ assignments = {}

HasChildren(path) ==
    \/ \E d \in directories : \E n \in DirNames : d = ChildPath(path, n)
    \/ \E t \in typeTables : \E n \in TableNames : t.path = ChildPath(path, n)

C15_ErrorListCapped ==
    /\ Len(mErrors) <= 100
    /\ failures < 100 => Len(mErrors) = failures
    /\ failures >= 100 => Len(mErrors) = 100

\* 150 errors have been logged in a row
C15_Witness ==
    /\ failures = 150
    /\ Len(mErrors) = 100

\* the operations of the provider that can fail
FailingOps ==
    ResolverOps \cup
    {"CreateConstantsTypeTable", "CreateVariation", "CreateAssignment",
     "UpdateAssignment", "DeleteAssignment", "DeleteConstantsTypeTable",
     "DeleteRunRange", "DeleteVariation", "MakeDirectory", "DeleteDirectory",
     "DeleteDirectoryObject", "RecursiveDeleteDirectory"}

\* the error codes an operation reports
FailureCodes(op) ==
    IF op \in ResolverOps \cup {"UpdateAssignment", "DeleteAssignment"}
    THEN {NotFound}
    ELSE IF op = "CreateVariation" THEN {Conflict}
    ELSE IF op = "CreateAssignment" THEN {NotFound, ValidationFailed}
    ELSE IF op \in {"DeleteDirectory", "DeleteDirectoryObject",
                    "RecursiveDeleteDirectory"}
    THEN {NotFound, Conflict, ValidationFailed}
    ELSE {NotFound, Conflict}

Results == AssignmentIds \cup {NULL}

NoBackslash(source) == \A i \in 1..Len(source) : source[i] # "\\"
Quoted(source, i) ==
    Cardinality({j \in 1..(i - 1) : source[j] = "\""}) % 2 = 1
CommentStart(source) ==
    IF \E i \in 1..Len(source) : source[i] = "#" /\ ~Quoted(source, i)
    THEN CHOOSE i \in 1..Len(source) :
            /\ source[i] = "#" /\ ~Quoted(source, i)
            /\ \A j \in 1..(i - 1) : ~(source[j] = "#" /\ ~Quoted(source, j))
    ELSE Len(source) + 1
Separates(source, i) ==
    source[i] \in CCDB_BLANK_CHARACTERS /\ ~Quoted(source, i)
\* the characters of the line that belong to values, in order
RECURSIVE Kept(_, _)
Kept(source, n) ==
    IF n = 0 THEN << >>
    ELSE IF source[n] = "\"" \/ Separates(source, n)
    THEN Kept(source, n - 1)
    ELSE Append(Kept(source, n - 1), source[n])
RECURSIVE Flatten(_)
Flatten(tokens) ==
    IF tokens = << >> THEN << >>
    ELSE Head(tokens) \o Flatten(Tail(tokens))

\* C18: '#' outside quotes starts a comment that is discarded to the end of
\* the line, '#' inside quotes is a literal character of the value, and blanks
\* outside quotes belong to no value: the characters of the values are those
\* of the line before the comment, quotes and outer blanks apart. The line
\* "John Smith" 123 #note gives [John Smith, 123]; "info #4" gives [info #4].
C18_CommentOutsideQuotesOnly ==
    lex.split =>
        /\ NoBackslash(lex.source) =>
                Flatten(lex.tokens) = Kept(lex.source, CommentStart(lex.source) - 1)
        /\ (lex.source = JohnSmith123Note) => (lex.tokens = <<TokJohnSmith, Tok123>>)
        /\ (lex.source = Info4) => (lex.tokens = <<TokInfo4>>)

C18_Witness ==
    /\ lex.split
    /\ lex.source = <<"\"", "#", "\"", "a", "#">>
    /\ lex.tokens = <<<<"#", "a">>>>

\* the positions of the line, before the comment, where a value begins: the
\* first character and every one after a blank outside quotes
ValueStarts(source) ==
    {i \in 1..(CommentStart(source) - 1) :
        /\ ~Separates(source, i)
        /\ i = 1 \/ Separates(source, i - 1)}

\* C19: a quoted value and the symbols next to it, with no blank between
\* them, are one value: a quote never begins or ends a value, only a blank
\* outside quotes does, so a line with no such blank is one value. The lines
\* John" Smith" and John" "Smith give [John Smith]; 5.14"Smith" gives
\* [5.14Smith].
C19_StickedStringsMerge ==
    lex.split =>
        /\ NoBackslash(lex.source) =>
                Len(lex.tokens) = Cardinality(ValueStarts(lex.source))
        /\ (lex.source = JohnQSmithQ) => (lex.tokens = <<TokJohnSmith>>)
        /\ (lex.source = JohnQQSmith) => (lex.tokens = <<TokJohnSmith>>)
        /\ (lex.source = NumberSmith) => (lex.tokens = <<Tok514Smith>>)

C19_Witness ==
    /\ lex.split
    /\ lex.source = JohnQQSmith
    /\ lex.tokens = <<TokJohnSmith>>

\* the line ends inside a quoted value: no comment, and a quote with no
\* ending quote
EndsInOpenQuote(source) ==
    /\ NoBackslash(source)
    /\ CommentStart(source) = Len(source) + 1
    /\ Quoted(source, Len(source) + 1)
OpeningQuote(source) ==
    CHOOSE q \in 1..Len(source) :
        source[q] = "\"" /\ \A j \in (q + 1)..Len(source) : source[j] # "\""
AfterOpeningQuote(source) ==
    SubSeq(source, OpeningQuote(source) + 1, Len(source))

\* C20: when the line ends inside a quoted value, the split gives its values
\* (no error), and the last of them ends with everything after the opening
\* quote up to the end of the line, blanks and '#' included; it is exactly
\* that text when the quote begins the value. The line 12 "ab c gives
\* [12, ab c].
C20_NoEndingQuoteTakenToEndOfLine ==
    (lex.split /\ EndsInOpenQuote(lex.source)) =>
        LET text == AfterOpeningQuote(lex.source)
            q == OpeningQuote(lex.source)
            value == lex.tokens[Len(lex.tokens)]
        IN  /\ lex.tokens # << >>
            /\ Len(value) >= Len(text)
            /\ SubSeq(value, Len(value) - Len(text) + 1, Len(value)) = text
            /\ (q = 1 \/ Separates(lex.source, q - 1)) => value = text
            /\ (lex.source = OpenQuote) => (lex.tokens = <<Tok12, TokAbC>>)

C20_Witness ==
    /\ lex.split
    /\ lex.source = OpenQuote
    /\ EndsInOpenQuote(lex.source)
    /\ lex.tokens = <<Tok12, TokAbC>>

\* The reading of any line without the scan. A quote is saved when it follows
\* a backslash inside a quoted value; the other quotes open and close the
\* quoted values.
RECURSIVE InString(_, _)
Saved(source, j) ==
    /\ j > 1
    /\ source[j] = "\""
    /\ source[j - 1] = "\\"
    /\ InString(source, j - 1)
InString(source, i) ==
    Cardinality({j \in 1..(i - 1) : source[j] = "\"" /\ ~Saved(source, j)}) % 2 = 1
SavesQuote(source, j) ==
    j < Len(source) /\ Saved(source, j + 1)
CommentBegins(source) ==
    IF \E i \in 1..Len(source) : source[i] = "#" /\ ~InString(source, i)
    THEN CHOOSE i \in 1..Len(source) :
            /\ source[i] = "#" /\ ~InString(source, i)
            /\ \A j \in 1..(i - 1) : ~(source[j] = "#" /\ ~InString(source, j))
    ELSE Len(source) + 1
Blank(source, i) ==
    source[i] \in CCDB_BLANK_CHARACTERS /\ ~InString(source, i)
RECURSIVE Text(_, _)
Text(source, n) ==
    IF n = 0 THEN << >>
    ELSE IF \/ source[n] = "\"" /\ ~Saved(source, n)
            \/ SavesQuote(source, n)
            \/ Blank(source, n)
    THEN Text(source, n - 1)
    ELSE Append(Text(source, n - 1), source[n])
Values(source) ==
    {i \in 1..(CommentBegins(source) - 1) :
        /\ ~Blank(source, i)
        /\ i = 1 \/ Blank(source, i - 1)}

\* C21: inside a quoted value the pair backslash-quote is a quote character of
\* the value and does not end it; the quoted value ends only at the next
\* quote that is not saved. On every line the characters of the values are
\* those of the line before the comment without the blanks outside quotes,
\* the opening and ending quotes and the saving backslashes, and a saved
\* quote begins or ends no value. The line "a\"b" c gives [a"b, c].
C21_BackslashQuoteIsLiteral ==
    lex.split =>
        /\ Flatten(lex.tokens) = Text(lex.source, CommentBegins(lex.source) - 1)
        /\ Len(lex.tokens) = Cardinality(Values(lex.source))
        /\ (lex.source = EscapedQuote) => (lex.tokens = <<TokAQuoteB, TokC>>)

C21_Witness ==
    /\ lex.split
    /\ lex.source = EscapedQuote
    /\ Saved(lex.source, 4)
    /\ lex.tokens = <<TokAQuoteB, TokC>>

\* ---- wildcard claims
\* The lengths of the beginnings of the source that the first k characters of
\* the pattern describe: '*' lengthens a beginning by any run, '?' and the
\* other characters by one character.
RECURSIVE Described(_, _, _)
Described(pattern, k, source) ==
    IF k = 0 THEN {0}
    ELSE LET before == Described(pattern, k - 1, source)
         IN  IF pattern[k] = "*"
             THEN {m \in 0..Len(source) : \E n \in before : n <= m}
             ELSE {n + 1 : n \in {n \in before :
                        /\ n < Len(source)
                        /\ pattern[k] = "?" \/ pattern[k] = source[n + 1]}}

IsDirectoryPath(path) ==
    /\ path # << >>
    /\ path[1] = "/"
    /\ \A i \in 1..(Len(path) - 1) : ~(path[i] = "/" /\ path[i + 1] = "/")
IsObjectName(name) ==
    /\ name # << >>
    /\ name[Len(name)] # "/"
    /\ \A i \in 2..Len(name) : name[i] # "/"
WithoutEndingSeparator(path) ==
    IF path # << >> /\ path[Len(path)] = "/"
    THEN SubSeq(path, 1, Len(path) - 1)
    ELSE path

\* C23, as stated: for every directory path P and object name N,
\* ExtractDirectory(CombinePath(P, N)) is P, also when P ends with '/'.
C23_Original_ExtractOfCombineIsParent ==
    (/\ paths.done
     /\ IsDirectoryPath(paths.left)
     /\ IsObjectName(paths.right)) => paths.directory = paths.left

\* C23, amended: for every directory path P and object name N,
\* ExtractDirectory(CombinePath(P, N)) is P without the '/' at its end: it is
\* P when P does not end with '/', whether N begins with '/' or not, and it
\* is never a path that ends with '/'.
C23_ExtractOfCombineIsParentWithoutEndingSeparator ==
    (/\ paths.done
     /\ IsDirectoryPath(paths.left)
     /\ IsObjectName(paths.right)) =>
        /\ paths.directory = WithoutEndingSeparator(paths.left)
        /\ paths.left[Len(paths.left)] # "/" => paths.directory = paths.left
        /\ paths.directory = << >> \/ paths.directory[Len(paths.directory)] # "/"

C23_Witness ==
    /\ paths.done
    /\ paths.left = <<"/", "a", "/">>
    /\ paths.right = <<"/", "b">>
    /\ paths.combined = <<"/", "a", "/", "b">>
    /\ paths.directory = <<"/", "a">>

\* ---- namespace claims
\* the names with a character that is no letter, no digit, not '_' and not '-'
Rejected ==
    {name \in DirNames \cup {"t"} \cup InvalidNames :
        \E i \in 1..Len(Spelling(name)) : Spelling(name)[i] \notin NameCharacters}

DirectoryMutation ==
    \/ \E name \in DirNames, parent \in DirPaths : MakeDirectory(name, parent)
    \/ \E dir \in DirPaths : UpdateDirectory(dir)
    \/ \E path \in DirPaths : DeleteDirectory(path)
    \/ \E dir \in DirPaths : DeleteDirectoryObject(dir)
    \/ \E dir \in DirPaths : RecursiveDeleteDirectory(dir)

\* C26: after a creation, an update or a deletion of a directory that
\* succeeds, no Directory object obtained before it is valid, the root
\* directory apart; the object of the root directory is never stale; a
\* creation, update or deletion that fails leaves every object as it was.
C26_HandlesStaleAfterMutation ==
    /\ [](handles["/"] # "stale")
    /\ [][DirectoryMutation =>
            /\ handles'["/"] = handles["/"]
            /\ (last'.res = Success) =>
                    \A path \in DirPaths \ {"/"} :
                        /\ handles'[path] # "valid"
                        /\ (handles[path] = "valid") => (handles'[path] = "stale")
            /\ (last'.res = NULL) => (handles' = handles)]_vars

\* the objects of / and /d were held when /e was created
C26_Witness ==
    /\ last = Call("MakeDirectory", Success)
    /\ directories = {"/", "/d", "/e"}
    /\ handles["/"] = "valid"
    /\ handles["/d"] = "stale"

NamesDistinct == \A v1, v2 \in variations : v1.name = v2.name => v1 = v2
DefaultExists == \E v \in variations : v.name = "default"

DocumentedTag(type) ==
    CASE type = "int" -> "int"
      [] type = "uint" -> "uint"
      [] type = "long" -> "long"
      [] type = "ulong" -> "ulong"
      [] type = "double" -> "double"
      [] type = "bool" -> "bool"
      [] type = "string" -> "string"
      [] type = "" -> "double"
      [] type = "Int" -> "double"
      [] type = "float" -> "double"

\* the creation of a table of this name with these columns has nothing to refuse
Creatable(name, cols) ==
    /\ name \in {"a", "b"}
    /\ DOMAIN cols \subseteq {"px", "py"}
    /\ GetConstantsTypeTable(ChildPath("/", name)) = NULL

\* C31: a table is created with a map of columns.  Each of the type strings
\* int, uint, long, ulong, double, bool, string gives the column its own tag,
\* in exactly this spelling; every other type string, the empty one and "Int"
\* among them, gives a double column, and the creation does not fail for it:
\* the table is returned and holds one column of each name of the map.
C31_ColumnTypeOrDouble ==
    [][last'.op = "CreateConstantsTypeTable" =>
        \A name \in {"a", "b"}, cols \in ColumnMaps :
            (/\ Creatable(name, cols)
             /\ CreateConstantsTypeTableColumns(name, "/", 1, cols)) =>
                /\ last'.res # NULL
                /\ mErrors' = << >>
                /\ \A c \in DOMAIN cols :
                        {row.type : row \in {x \in columns' :
                            x.tableId = last'.res /\ x.name = c}}
                        = {DocumentedTag(cols[c])}
                /\ {row.name : row \in {x \in columns' : x.tableId = last'.res}}
                        = DOMAIN cols]_vars

\* two tables are there: one of an int column, and one of the two columns of
\* the documentation, both double
C31_Witness ==
    /\ last.op = "CreateConstantsTypeTable"
    /\ last.res = 2
    /\ \E t \in typeTables : t.id = 2 /\ t.nColumns = 2
    /\ {[name |-> x.name, type |-> x.type] : x \in {y \in columns : y.tableId = 2}}
            = {[name |-> "px", type |-> "double"], [name |-> "py", type |-> "double"]}
    /\ [tableId |-> 1, name |-> "px", type |-> "int"] \in columns

\* ---------------------------------------------------------------- C32
\* every assignment refers to a table, a run range and a variation that are
\* stored, and every table is in a directory that is there
NoDanglingReference ==
    /\ \A a \in assignments :
            /\ \E t \in typeTables : t.id = a.tableId
            /\ \E r \in runRanges : r.id = a.runRangeId
            /\ \E v \in variations : v.id = a.variationId
    /\ \A t \in typeTables : ParentPath(t.path) \in directories

\* the assignments that refer to what is stored after the step
Remaining ==
    {a \in assignments :
        /\ \E t \in typeTables' : t.id = a.tableId
        /\ \E r \in runRanges' : r.id = a.runRangeId
        /\ \E v \in variations' : v.id = a.variationId}

RecursiveOps ==
    {"RecursiveDeleteDirectory", "RecursiveDeleteTypeTable",
     "RecursiveDeleteRunRange", "RecursiveDeleteVariation"}

VersionsDistinct ==
    \A a, b \in assignments :
        (/\ a.id # b.id
         /\ b \in Scope(a.tableId, a.runRangeId, a.variationId)) => a.version # b.version

\* C33: the versions of the assignments of one (table, run range, variation)
\* scope that exist are pairwise distinct in every reachable state, also after
\* an assignment of the scope was deleted with DeleteAssignment and a new one
\* was created; and a creation gives the new assignment a version greater than
\* the version of every other assignment its scope holds.
C33_VersionsDistinctAfterDelete ==
    /\ []VersionsDistinct
    /\ [][(last'.op = "CreateAssignment" /\ last'.res # NULL) =>
            \E new \in assignments' :
                /\ new.id = last'.res
                /\ new \notin assignments
                /\ new.version >= 1
                /\ \A a \in assignments' :
                        (/\ a.id # new.id
                         /\ a.tableId = new.tableId
                         /\ a.runRangeId = new.runRangeId
                         /\ a.variationId = new.variationId) => a.version < new.version]_vars

\* two assignments were created in one scope, the first was deleted, and a
\* third was created in the scope: the scope holds the versions 2 and 3
C33_Witness ==
    /\ last = Call("CreateAssignment", 3)
    /\ \E a, b \in assignments :
            /\ a.id = 2 /\ a.version = 2
            /\ b.id = 3 /\ b.version = 3
            /\ b \in Scope(a.tableId, a.runRangeId, a.variationId)
    /\ \A a \in assignments : a.id # 1
    /\ nextId.runRange = 2

\* ---------------------------------------------------------------- C34
\* the data of the stored assignment of an id, none for NULL
DataOf(id) == IF id = NULL THEN << >> ELSE AssignmentById(id).data

\* the run range and the variation the stored assignment of an id refers to
ReferredTo(id) ==
    IF id = NULL THEN {}
    ELSE {r \in runRanges : r.id = AssignmentById(id).runRangeId}
         \cup {v \in variations : v.id = AssignmentById(id).variationId}

ReturnsFlagOrFalse ==
    /\ calib.retrieval \in {"true", "false"} => calib.returned = calib.retrieval
    /\ calib.retrieval = "std::exception" => calib.returned = "false"

\* C35: each overload of JCalibrationCCDB::GetCalib, that of a single map and
\* that of a vector of maps, returns the success flag of the underlying
\* retrieval, and returns false, and does not propagate, when the underlying
\* retrieval throws a std::exception.
C35_Original_EachGetCalibReturnsFlagOrFalse ==
    calib.call \in {"GetCalib(map)", "GetCalib(vector)"} => ReturnsFlagOrFalse

\* C35, for the overload of a single map, where it holds: the call returns
\* the success flag of the underlying retrieval, and false when the retrieval
\* throws a std::exception.
C35_GetCalibMapReturnsFlagOrFalse ==
    calib.call = "GetCalib(map)" => ReturnsFlagOrFalse

\* the overload of a vector of maps has returned true to its caller where the
\* retrieval had returned false
C35_Witness ==
    /\ calib.call = "GetCalib(vector)"
    /\ calib.retrieval = "false"
    /\ calib.returned = "true"
====
